---- MODULE Spec2Model ----
(***************************************************************************)
(* A model of gomantics/imx: magic-byte format detection, the five         *)
(* structural decoders (BMP, PNG, GIF, JPEG, WebP), the TIFF / EXIF        *)
(* directory decoder, the dispatcher metadataFromSeeker, a caller that     *)
(* rewinds a source and decodes it again, the borrowing, release and reuse *)
(* of package imx's pooled payload buffers, and a source that splits the   *)
(* dispatcher's magic-byte read.                                           *)
(*                                                                         *)
(* A byte source is a sequence of bytes 0..255 with a cursor `pos`         *)
(* (0-based, as in bytes.Reader).  Each decoder is translated from its Go  *)
(* source: straight-line decoders (BMP, WebP) are one action; decoders     *)
(* with a chunk / block / segment loop are a header action, one action per *)
(* loop iteration and an epilogue action.                                  *)
(*                                                                         *)
(* Go's int is taken to be 64 bits wide.  TLC's integers are 32 bits wide, *)
(* so unsigned 32-bit fields are modelled for values below 2^31 (TLC stops *)
(* with an overflow error on anything larger, it never wraps silently);    *)
(* int32 arithmetic is modelled with its two's-complement wrap-around.     *)
(***************************************************************************)
EXTENDS Integers, Sequences, FiniteSets, TLC

VARIABLES
    data,     \* the bytes of the source (io.ReadSeeker contents)
    pos,      \* the source's cursor, 0-based
    pc,       \* where the running call is
    via,      \* the entry point: "metadataFromSeeker", "formats.Extract" or "imx"
    format,   \* the format tag ("" when none)
    res,      \* the *formats.Result being built / returned (Nil when nil)
    err,      \* the error value returned ("nil" when none)
    md,       \* the *ImageMetadata returned by metadataFromSeeker (Nil when nil)
    loc,      \* the running decoder's local variables
    magic,    \* the leading bytes metadataFromSeeker handed to Detect
    first     \* the outcome of the call made before the source was rewound

vars == <<data, pos, pc, via, format, res, err, md, loc, magic, first>>

-----------------------------------------------------------------------------
(* Bytes, bit operations and fixed-width integers                          *)

Byte == 0..255

Min(a, b) == IF a < b THEN a ELSE b

RECURSIVE BitAnd(_, _)
BitAnd(a, b) ==
    IF a = 0 \/ b = 0 THEN 0
    ELSE (IF a % 2 = 1 /\ b % 2 = 1 THEN 1 ELSE 0) + 2 * BitAnd(a \div 2, b \div 2)

RECURSIVE BitOr(_, _)
BitOr(a, b) ==
    IF a = 0 THEN b
    ELSE IF b = 0 THEN a
    ELSE (IF a % 2 = 1 \/ b % 2 = 1 THEN 1 ELSE 0) + 2 * BitOr(a \div 2, b \div 2)

RECURSIVE Pow2(_)
Pow2(k) == IF k = 0 THEN 1 ELSE 2 * Pow2(k - 1)

Shl(a, k) == a * Pow2(k)
Shr(a, k) == a \div Pow2(k)

MinInt32 == -2147483647 - 1

\* binary.LittleEndian.Uint16 / binary.BigEndian.Uint16 of a 2-byte slice
LEUint16(b) == b[1] + 256 * b[2]
BEUint16(b) == 256 * b[1] + b[2]

\* binary.*.Uint32 of a 4-byte slice (values below 2^31)
LEUint32(b) == b[1] + 256 * (b[2] + 256 * (b[3] + 256 * b[4]))
BEUint32(b) == b[4] + 256 * (b[3] + 256 * (b[2] + 256 * b[1]))

\* int32(binary.LittleEndian.Uint32(b)): the same 32 bits read as two's complement
LEInt32(b) ==
    b[1] + 256 * (b[2] + 256 * (b[3] + 256 * (IF b[4] >= 128 THEN b[4] - 256 ELSE b[4])))

\* int32(int16(binary.LittleEndian.Uint16(b))): 16 bits, sign-extended
LEInt16(b) == b[1] + 256 * (IF b[2] >= 128 THEN b[2] - 256 ELSE b[2])

\* -x on an int32: wraps at the most negative value
Neg32(x) == IF x = MinInt32 THEN MinInt32 ELSE -x

-----------------------------------------------------------------------------
(* The byte source: bytes.Reader's Read and Seek, and io.ReadFull          *)

\* r.Read(buf) with len(buf) = n at cursor p: io.EOF when the cursor is at or
\* past the end, else min(n, remaining) bytes and NO error (a short read).
\* buf is freshly allocated (zeroed) at every call site, so the bytes not read
\* stay 0.
Read(d, p, n) ==
    LET avail == IF p >= Len(d) THEN 0 ELSE Len(d) - p
        k     == Min(n, avail)
    IN  [n   |-> k,
         err |-> IF avail = 0 THEN "io.EOF" ELSE "nil",
         buf |-> [i \in 1..n |-> IF i <= k THEN d[p + i] ELSE 0],
         pos |-> p + k]

\* a relative seek that moves the cursor twice as far as it was asked to
SeekCurrentTwice(d, p, off) == IF p + 2 * off < 0 THEN p ELSE p + 2 * off

\* r.Seek(off, io.SeekCurrent): a negative target is an error and leaves the
\* cursor where it was; a target past the end is allowed.
SeekCurrent(d, p, off) == IF p + off < 0 THEN p ELSE p + off

\* io.ReadFull(r, buf) with len(buf) = n: nil when n bytes were read (also for
\* n = 0), io.EOF when none could be read, io.ErrUnexpectedEOF when some but
\* fewer than n were read.
ReadFull(d, p, n) ==
    LET avail == IF p >= Len(d) THEN 0 ELSE Len(d) - p
        k     == Min(n, avail)
    IN  [n   |-> k,
         err |-> IF k = n THEN "nil"
                 ELSE IF k = 0 THEN "io.EOF" ELSE "io.ErrUnexpectedEOF",
         buf |-> [i \in 1..n |-> IF i <= k THEN d[p + i] ELSE 0],
         pos |-> p + k]

\* the read a decoder issues: package formats calls r.Read, package imx calls
\* io.ReadFull
Rd(imx, d, p, n) == IF imx THEN ReadFull(d, p, n) ELSE Read(d, p, n)

-----------------------------------------------------------------------------
(* Maps (map[string]interface{}) and the records                           *)

EmptyMap == [k \in {} |-> 0]

Put(m, k, v) == [x \in (DOMAIN m) \cup {k} |-> IF x = k THEN v ELSE m[x]]

Has(m, k) == k \in DOMAIN m

Nil == [nil |-> TRUE]

\* formats.newResult()
newResult ==
    [Width |-> 0, Height |-> 0, ColorDepth |-> 0, ColorSpace |-> "",
     HasICCProfile |-> FALSE, EXIF |-> EmptyMap, Additional |-> EmptyMap]

\* the error a failed signature check returns: formats wraps ErrInvalidData,
\* imx returns a plain fmt.Errorf
InvalidData(imx) == IF imx THEN "invalid file" ELSE "ErrInvalidData"

\* a decoder's outcome: the result pointer, the error, the cursor it leaves
Ret(r, e, p) == [res |-> r, err |-> e, pos |-> p]

-----------------------------------------------------------------------------
(* Format detection                                                        *)

pngSig == <<137, 80, 78, 71, 13, 10, 26, 10>>

\* Detect with the WebP rule looking at the RIFF tag only
DetectAnyRIFF(magicBytes) ==
    LET n == Len(magicBytes) IN
    IF n < 2 THEN ""
    ELSE IF n >= 3 /\ magicBytes[1] = 255 /\ magicBytes[2] = 216 /\ magicBytes[3] = 255
        THEN "JPEG"
    ELSE IF n >= 8 /\ \A i \in 1..8 : magicBytes[i] = pngSig[i]
        THEN "PNG"
    ELSE IF n >= 6 /\ magicBytes[1] = 71 /\ magicBytes[2] = 73 /\ magicBytes[3] = 70
            /\ magicBytes[4] = 56 /\ (magicBytes[5] = 55 \/ magicBytes[5] = 57)
            /\ magicBytes[6] = 97
        THEN "GIF"
    ELSE IF n >= 12 /\ magicBytes[1] = 82 /\ magicBytes[2] = 73 /\ magicBytes[3] = 70
            /\ magicBytes[4] = 70
        THEN "WebP"
    ELSE IF n >= 2 /\ magicBytes[1] = 66 /\ magicBytes[2] = 77
        THEN "BMP"
    ELSE ""

\* formats.Detect
DetectAnyVersion(magicBytes) ==
    LET n == Len(magicBytes) IN
    IF n < 2 THEN ""
    ELSE IF n >= 3 /\ magicBytes[1] = 255 /\ magicBytes[2] = 216 /\ magicBytes[3] = 255
        THEN "JPEG"
    ELSE IF n >= 8 /\ \A i \in 1..8 : magicBytes[i] = pngSig[i]
        THEN "PNG"
    ELSE IF n >= 6 /\ magicBytes[1] = 71 /\ magicBytes[2] = 73 /\ magicBytes[3] = 70
            /\ (magicBytes[4] = 56 \/ magicBytes[4] = 57) /\ magicBytes[6] = 97
        THEN "GIF"
    ELSE IF n >= 12 /\ magicBytes[1] = 82 /\ magicBytes[2] = 73 /\ magicBytes[3] = 70
            /\ magicBytes[4] = 70
            /\ magicBytes[9] = 87 /\ magicBytes[10] = 69 /\ magicBytes[11] = 66
            /\ magicBytes[12] = 80
        THEN "WebP"
    ELSE IF n >= 2 /\ magicBytes[1] = 66 /\ magicBytes[2] = 77
        THEN "BMP"
    ELSE ""

Detect(magicBytes) ==
    LET n == Len(magicBytes) IN
    IF n < 2 THEN ""
    ELSE IF n >= 3 /\ magicBytes[1] = 255 /\ magicBytes[2] = 216 /\ magicBytes[3] = 255
        THEN "JPEG"
    ELSE IF n >= 8 /\ \A i \in 1..8 : magicBytes[i] = pngSig[i]
        THEN "PNG"
    ELSE IF n >= 6 /\ magicBytes[1] = 71 /\ magicBytes[2] = 73 /\ magicBytes[3] = 70
            /\ magicBytes[4] = 56 /\ (magicBytes[5] = 55 \/ magicBytes[5] = 57)
            /\ magicBytes[6] = 97
        THEN "GIF"
    ELSE IF n >= 12 /\ magicBytes[1] = 82 /\ magicBytes[2] = 73 /\ magicBytes[3] = 70
            /\ magicBytes[4] = 70
            /\ magicBytes[9] = 87 /\ magicBytes[10] = 69 /\ magicBytes[11] = 66
            /\ magicBytes[12] = 80
        THEN "WebP"
    ELSE IF n >= 2 /\ magicBytes[1] = 66 /\ magicBytes[2] = 77
        THEN "BMP"
    ELSE ""

-----------------------------------------------------------------------------
(* BMP                                                                     *)

\* compressionNames
compressionNames ==
    [c \in 0..5 |->
        CASE c = 0 -> "BI_RGB" [] c = 1 -> "BI_RLE8" [] c = 2 -> "BI_RLE4"
          [] c = 3 -> "BI_BITFIELDS" [] c = 4 -> "BI_JPEG" [] c = 5 -> "BI_PNG"]

\* the switch on bitsPerPixel
bmpColorSpace(bitsPerPixel) ==
    IF bitsPerPixel \in {1, 4, 8} THEN "Indexed"
    ELSE IF bitsPerPixel \in {16, 24} THEN "RGB"
    ELSE IF bitsPerPixel = 32 THEN "RGBA"
    ELSE "Unknown"

\* the dibSize >= 40 branch, after the 36 header bytes were read
bmpInfoHeader(result, dibHeader) ==
    LET width        == LEInt32(SubSeq(dibHeader, 1, 4))
        height       == LEInt32(SubSeq(dibHeader, 5, 8))
        planes       == LEUint16(SubSeq(dibHeader, 9, 10))
        bitsPerPixel == LEUint16(SubSeq(dibHeader, 11, 12))
        compression  == LEUint32(SubSeq(dibHeader, 13, 16))
        imageSize    == LEUint32(SubSeq(dibHeader, 17, 20))
        xPixelsPerM  == LEUint32(SubSeq(dibHeader, 21, 24))
        yPixelsPerM  == LEUint32(SubSeq(dibHeader, 25, 28))
        colorsUsed   == LEUint32(SubSeq(dibHeader, 29, 32))
        colorsImportant == LEUint32(SubSeq(dibHeader, 33, 36))
        a1 == Put(result.Additional, "TopDown", height < 0)
        a2 == Put(a1, "Planes", planes)
        a3 == Put(a2, "Compression", compression)
        a4 == Put(a3, "ImageSize", imageSize)
        a5 == Put(a4, "XPixelsPerMeter", xPixelsPerM)
        a6 == Put(a5, "YPixelsPerMeter", yPixelsPerM)
        a7 == Put(a6, "ColorsUsed", colorsUsed)
        a8 == Put(a7, "ColorsImportant", colorsImportant)
        a9 == IF compression \in DOMAIN compressionNames
              THEN Put(a8, "CompressionName", compressionNames[compression])
              ELSE a8
    IN  [result EXCEPT
            !.Width = width,
            !.Height = IF height < 0 THEN Neg32(height) ELSE height,
            !.ColorDepth = bitsPerPixel,
            !.ColorSpace = bmpColorSpace(bitsPerPixel),
            !.Additional = a9]

\* the dibSize == 12 branch, after the 8 header bytes were read
bmpCoreHeader(result, dibHeader) ==
    LET width        == LEInt16(SubSeq(dibHeader, 1, 2))
        height       == LEInt16(SubSeq(dibHeader, 3, 4))
        planes       == LEUint16(SubSeq(dibHeader, 5, 6))
        bitsPerPixel == LEUint16(SubSeq(dibHeader, 7, 8))
    IN  [result EXCEPT
            !.Width = width,
            !.Height = height,
            !.ColorDepth = bitsPerPixel,
            !.ColorSpace = "RGB",
            !.Additional = Put(result.Additional, "Planes", planes)]

\* formats.ExtractBMP (imx = FALSE) and imx.ExtractBMPMetadata (imx = TRUE)
ExtractBMP(imx, d) ==
    LET fh == Rd(imx, d, 0, 14) IN
    IF fh.err # "nil" THEN Ret(Nil, fh.err, fh.pos)
    ELSE IF fh.buf[1] # 66 \/ fh.buf[2] # 77 THEN Ret(Nil, InvalidData(imx), fh.pos)
    ELSE
    LET fileSize   == LEUint32(SubSeq(fh.buf, 3, 6))
        dataOffset == LEUint32(SubSeq(fh.buf, 11, 14))
        r0 == [newResult EXCEPT !.Additional =
                 Put(Put(EmptyMap, "FileSizeFromHeader", fileSize), "DataOffset", dataOffset)]
        ds == Rd(imx, d, fh.pos, 4)
    IN
    IF ds.err # "nil" THEN Ret(Nil, ds.err, ds.pos)
    ELSE
    LET dibSize == LEUint32(ds.buf) IN
    IF dibSize >= 40 THEN
        LET dh == Rd(imx, d, ds.pos, 36) IN
        IF dh.err # "nil" THEN Ret(Nil, dh.err, dh.pos)
        ELSE Ret(bmpInfoHeader(r0, dh.buf), "nil", dh.pos)
    ELSE IF dibSize = 12 THEN
        LET dh == Rd(imx, d, ds.pos, 8) IN
        IF dh.err # "nil" THEN Ret(Nil, dh.err, dh.pos)
        ELSE Ret(bmpCoreHeader(r0, dh.buf), "nil", dh.pos)
    ELSE Ret(Nil, InvalidData(imx), ds.pos)

-----------------------------------------------------------------------------
(* The TIFF / EXIF directory decoder                                       *)

exifTagDateTime          == 306
exifTagMake              == 271
exifTagModel             == 272
exifTagOrientation       == 274
exifTagXResolution       == 282
exifTagYResolution       == 283
exifTagResolutionUnit    == 296
exifTagSoftware          == 305
exifTagArtist            == 315
exifTagCopyright         == 33432
exifTagExifIFD           == 34665
exifTagISO               == 34855
exifTagExposureTime      == 33434
exifTagFNumber           == 33437
exifTagDateTimeOriginal  == 36867
exifTagDateTimeDigitized == 36868

exifTypeByte      == 1
exifTypeASCII     == 2
exifTypeShort     == 3
exifTypeLong      == 4
exifTypeRational  == 5
exifTypeUndefined == 7
exifTypeSLong     == 9
exifTypeSRational == 10

\* byteOrder.Uint16 / byteOrder.Uint32 for byteOrder "II" (little) or "MM" (big)
boUint16(byteOrder, b) == IF byteOrder = "II" THEN LEUint16(b) ELSE BEUint16(b)
boUint32(byteOrder, b) == IF byteOrder = "II" THEN LEUint32(b) ELSE BEUint32(b)

\* interface{} values: a tag and a payload; the nil interface is NilValue
NilValue == [t |-> "nil"]
Val(t, v) == [t |-> t, v |-> v]

\* getDataTypeSize
getDataTypeSize(dataType) ==
    IF dataType \in {exifTypeByte, exifTypeASCII, exifTypeUndefined} THEN 1
    ELSE IF dataType = exifTypeShort THEN 2
    ELSE IF dataType \in {exifTypeLong, exifTypeSLong} THEN 4
    ELSE IF dataType \in {exifTypeRational, exifTypeSRational} THEN 8
    ELSE 1

\* getEXIFTagName
getEXIFTagName(tag) ==
    CASE tag = exifTagDateTime -> "DateTime"
      [] tag = exifTagMake -> "Make"
      [] tag = exifTagModel -> "Model"
      [] tag = exifTagOrientation -> "Orientation"
      [] tag = exifTagXResolution -> "XResolution"
      [] tag = exifTagYResolution -> "YResolution"
      [] tag = exifTagResolutionUnit -> "ResolutionUnit"
      [] tag = exifTagSoftware -> "Software"
      [] tag = exifTagArtist -> "Artist"
      [] tag = exifTagCopyright -> "Copyright"
      [] tag = exifTagISO -> "ISO"
      [] tag = exifTagExposureTime -> "ExposureTime"
      [] tag = exifTagFNumber -> "FNumber"
      [] tag = exifTagDateTimeOriginal -> "DateTimeOriginal"
      [] tag = exifTagDateTimeDigitized -> "DateTimeDigitized"
      [] OTHER -> ""

rationalValueRejectsZero(num, den) ==
    IF den = 0 THEN NilValue
    ELSE Val("float64", [num |-> num, den |-> den])

\* the float64 a (signed) rational of count 1 decodes to, kept as a fraction:
\* float64(0) when den == 0, else num / den
rationalValue(num, den) ==
    IF den = 0 THEN Val("float64", [num |-> 0, den |-> 1])
    ELSE Val("float64", [num |-> num, den |-> den])

\* readTagValue; b is the slice handed in (1-based here)
readTagValue(b, dataType, count, byteOrder) ==
    IF dataType \in {exifTypeByte, exifTypeUndefined} THEN
        IF count = 1 /\ Len(b) >= 1 THEN Val("uint8", b[1])
        ELSE Val("[]byte", SubSeq(b, 1, Min(count, Len(b))))
    ELSE IF dataType = exifTypeASCII THEN
        IF Len(b) >= count THEN
            LET str == SubSeq(b, 1, count) IN
            IF Len(str) > 0 /\ str[Len(str)] = 0
            THEN Val("string", SubSeq(str, 1, Len(str) - 1))
            ELSE Val("string", str)
        ELSE Val("string", <<>>)
    ELSE IF dataType = exifTypeShort THEN
        IF count = 1 /\ Len(b) >= 2 THEN Val("uint16", boUint16(byteOrder, SubSeq(b, 1, 2)))
        ELSE Val("[]uint16",
                 [i \in 1..Min(count, Len(b) \div 2) |->
                     boUint16(byteOrder, SubSeq(b, 2 * i - 1, 2 * i))])
    ELSE IF dataType \in {exifTypeLong, exifTypeSLong} THEN
        IF count = 1 /\ Len(b) >= 4 THEN
            IF dataType = exifTypeSLong
            THEN Val("int32", boUint32(byteOrder, SubSeq(b, 1, 4)))
            ELSE Val("uint32", boUint32(byteOrder, SubSeq(b, 1, 4)))
        ELSE Val("[]uint32",
                 [i \in 1..Min(count, Len(b) \div 4) |->
                     boUint32(byteOrder, SubSeq(b, 4 * i - 3, 4 * i))])
    ELSE IF dataType \in {exifTypeRational, exifTypeSRational} THEN
        IF count = 1 /\ Len(b) >= 8 THEN
            LET num == boUint32(byteOrder, SubSeq(b, 1, 4))
                den == boUint32(byteOrder, SubSeq(b, 5, 8))
            IN  rationalValue(num, den)
        ELSE NilValue
    ELSE NilValue

\* the test at the head of parseIFD that ends the recursion
ifdStopsLate(b, offset, depth) == depth > 11 \/ offset + 2 > Len(b)

ifdStops(b, offset, depth) == depth > 10 \/ offset + 2 > Len(b)

RECURSIVE parseIFD(_, _, _, _, _)
RECURSIVE parseIFDEntries(_, _, _, _, _, _, _)

\* the entry loop of parseIFD: offset is the entry's offset, i the loop
\* counter.  acc is [exif, deepest]: the exif map the calls fill in, and the
\* greatest depth at which a directory has been parsed so far (-1 when none;
\* the code does not keep it, it is recorded here to state the depth bound).
parseIFDEntries(b, offset, byteOrder, acc, depth, i, numEntries) ==
    IF ~(i < numEntries /\ offset + 12 <= Len(b)) THEN acc
    ELSE
    LET tag         == boUint16(byteOrder, SubSeq(b, offset + 1, offset + 2))
        dataType    == boUint16(byteOrder, SubSeq(b, offset + 3, offset + 4))
        count       == boUint32(byteOrder, SubSeq(b, offset + 5, offset + 8))
        valueOffset == boUint32(byteOrder, SubSeq(b, offset + 9, offset + 12))
        valueSize   == getDataTypeSize(dataType) * count
        value ==
            IF valueSize <= 4
            THEN readTagValue(SubSeq(b, offset + 9, offset + 12), dataType, count, byteOrder)
            ELSE IF valueOffset < Len(b) /\ valueOffset + valueSize <= Len(b)
            THEN readTagValue(SubSeq(b, valueOffset + 1, valueOffset + valueSize),
                              dataType, count, byteOrder)
            ELSE NilValue
        tagName == getEXIFTagName(tag)
        a1 == IF tagName # "" THEN [acc EXCEPT !.exif = Put(@, tagName, value)] ELSE acc
        a2 == IF tag = exifTagExifIFD /\ valueSize <= 4 /\ valueOffset < Len(b)
              THEN parseIFD(b, valueOffset, byteOrder, a1, depth + 1)
              ELSE a1
    IN  parseIFDEntries(b, offset + 12, byteOrder, a2, depth, i + 1, numEntries)

\* parseIFD: acc after the directory at offset was merged in
parseIFD(b, offset, byteOrder, acc, depth) ==
    IF ifdStops(b, offset, depth) THEN acc
    ELSE parseIFDEntries(b, offset + 2, byteOrder,
                         [acc EXCEPT !.deepest = IF depth > @ THEN depth ELSE @],
                         depth, 0,
                         boUint16(byteOrder, SubSeq(b, offset + 1, offset + 2)))

\* parseTIFF: [err, exif, deepest]
parseTIFF(b) ==
    IF Len(b) < 8
        THEN [err |-> "insufficient data for TIFF header", exif |-> EmptyMap, deepest |-> -1]
    ELSE IF ~((b[1] = 73 /\ b[2] = 73) \/ (b[1] = 77 /\ b[2] = 77))
        THEN [err |-> "invalid TIFF byte order", exif |-> EmptyMap, deepest |-> -1]
    ELSE
    LET byteOrder == IF b[1] = 73 THEN "II" ELSE "MM" IN
    IF boUint16(byteOrder, SubSeq(b, 3, 4)) # 42
        THEN [err |-> "invalid TIFF magic number", exif |-> EmptyMap, deepest |-> -1]
    ELSE
    LET ifdOffset == boUint32(byteOrder, SubSeq(b, 5, 8)) IN
    IF ifdOffset >= Len(b)
        THEN [err |-> "IFD offset out of bounds", exif |-> EmptyMap, deepest |-> -1]
    ELSE LET acc == parseIFD(b, ifdOffset, byteOrder,
                             [exif |-> EmptyMap, deepest |-> -1], 0)
         IN  [err |-> "nil", exif |-> acc.exif, deepest |-> acc.deepest]

\* for k, v := range exifData { result.EXIF[k] = v }
mergeMap(into, from) ==
    [k \in (DOMAIN into) \cup (DOMAIN from) |-> IF k \in DOMAIN from THEN from[k] ELSE into[k]]

-----------------------------------------------------------------------------
(* WebP                                                                    *)

sRIFF == <<82, 73, 70, 70>>
sWEBP == <<87, 69, 66, 80>>
sVP8  == <<86, 80, 56, 32>>
sVP8L == <<86, 80, 56, 76>>
sVP8X == <<86, 80, 56, 88>>

parseVP8Unmasked(imx, d, p, result) ==
    LET keyFrame == Rd(imx, d, p, 10)
        kf == keyFrame.buf
    IN
    IF keyFrame.err # "nil" THEN Ret(result, keyFrame.err, keyFrame.pos)
    ELSE IF kf[1] # 157 \/ kf[2] # 1 \/ kf[3] # 42
        THEN Ret(result, InvalidData(imx), keyFrame.pos)
    ELSE
    LET width  == BitOr(kf[7], Shl(kf[8], 8))
        height == BitOr(kf[9], Shl(kf[10], 8))
    IN  Ret([result EXCEPT !.Width = width + 1, !.Height = height + 1, !.ColorDepth = 24],
            "nil", keyFrame.pos)

\* parseVP8: [res, err, pos]
parseVP8(imx, d, p, result) ==
    LET keyFrame == Rd(imx, d, p, 10)
        kf == keyFrame.buf
    IN
    IF keyFrame.err # "nil" THEN Ret(result, keyFrame.err, keyFrame.pos)
    ELSE IF kf[1] # 157 \/ kf[2] # 1 \/ kf[3] # 42
        THEN Ret(result, InvalidData(imx), keyFrame.pos)
    ELSE
    LET width  == BitOr(kf[7], Shl(BitAnd(kf[8], 63), 8))
        height == BitOr(kf[9], Shl(BitAnd(kf[10], 63), 8))
    IN  Ret([result EXCEPT !.Width = width + 1, !.Height = height + 1, !.ColorDepth = 24],
            "nil", keyFrame.pos)

\* parseVP8L: [res, err, pos]
parseVP8L(imx, d, p, result) ==
    LET header == Rd(imx, d, p, 5)
        h == header.buf
    IN
    IF header.err # "nil" THEN Ret(result, header.err, header.pos)
    ELSE IF h[1] # 47 THEN Ret(result, InvalidData(imx), header.pos)
    ELSE
    LET width  == BitOr(h[2], Shl(BitAnd(h[3], 63), 8))
        height == BitOr(BitOr(Shr(h[3], 6), Shl(BitAnd(h[4], 15), 2)),
                        Shl(BitAnd(h[5], 63), 10))
    IN  Ret([result EXCEPT !.Width = width + 1, !.Height = height + 1, !.ColorDepth = 32],
            "nil", header.pos)

\* parseVP8X: [res, err, pos]
parseVP8X(imx, d, p, result) ==
    LET header == Rd(imx, d, p, 10)
        h == header.buf
    IN
    IF header.err # "nil" THEN Ret(result, header.err, header.pos)
    ELSE IF SubSeq(h, 1, 4) # sVP8X THEN Ret(result, InvalidData(imx), header.pos)
    ELSE
    LET flags  == h[5]
        width  == BitOr(BitOr(h[7], Shl(h[8], 8)), Shl(BitAnd(h[9], 15), 16))
        height == BitOr(Shr(h[9], 4), Shl(h[10], 4))
        a1 == Put(result.Additional, "Reserved", Shr(BitAnd(flags, 224), 5))
        a2 == Put(a1, "ICC", BitAnd(flags, 32) # 0)
        a3 == Put(a2, "Alpha", BitAnd(flags, 16) # 0)
        a4 == Put(a3, "EXIF", BitAnd(flags, 8) # 0)
        a5 == Put(a4, "XMP", BitAnd(flags, 4) # 0)
        a6 == Put(a5, "Animation", BitAnd(flags, 2) # 0)
    IN  Ret([result EXCEPT
                !.Width = width + 1,
                !.Height = height + 1,
                !.ColorDepth = IF BitAnd(flags, 16) # 0 THEN 32 ELSE 24,
                !.Additional = a6,
                !.HasICCProfile = BitAnd(flags, 32) # 0],
            "nil", header.pos)

\* webpFinish that reports every image as opaque RGB
webpFinishOpaque(r, hasAnimation, hasAlpha) ==
    Ret([r.res EXCEPT
            !.ColorSpace = "RGB",
            !.Additional = Put(Put(r.res.Additional, "HasAnimation", hasAnimation),
                               "HasAlpha", hasAlpha)],
        "nil", r.pos)

\* the tail of ExtractWebP once the variant parser returned r (no error)
webpFinish(r, hasAnimation, hasAlpha) ==
    Ret([r.res EXCEPT
            !.ColorSpace = IF hasAlpha THEN "RGBA" ELSE "RGB",
            !.Additional = Put(Put(r.res.Additional, "HasAnimation", hasAnimation),
                               "HasAlpha", hasAlpha)],
        "nil", r.pos)

\* formats.ExtractWebP (imx = FALSE) and imx.ExtractWebPMetadata (imx = TRUE)
ExtractWebP(imx, d) ==
    LET header == Rd(imx, d, 0, 12) IN
    IF header.err # "nil" THEN Ret(Nil, header.err, header.pos)
    ELSE IF SubSeq(header.buf, 1, 4) # sRIFF THEN Ret(Nil, InvalidData(imx), header.pos)
    ELSE IF SubSeq(header.buf, 9, 12) # sWEBP THEN Ret(Nil, InvalidData(imx), header.pos)
    ELSE
    LET chunkType == Rd(imx, d, header.pos, 4) IN
    IF chunkType.err # "nil" THEN Ret(Nil, chunkType.err, chunkType.pos)
    ELSE IF chunkType.buf = sVP8 THEN
        LET r == parseVP8(imx, d, chunkType.pos, newResult) IN
        IF r.err # "nil" THEN Ret(Nil, r.err, r.pos) ELSE webpFinish(r, FALSE, FALSE)
    ELSE IF chunkType.buf = sVP8L THEN
        LET r == parseVP8L(imx, d, chunkType.pos, newResult) IN
        IF r.err # "nil" THEN Ret(Nil, r.err, r.pos) ELSE webpFinish(r, FALSE, TRUE)
    ELSE IF chunkType.buf = sVP8X THEN
        LET r == parseVP8X(imx, d, chunkType.pos, newResult) IN
        IF r.err # "nil" THEN Ret(Nil, r.err, r.pos)
        ELSE webpFinish(r, r.res.Additional["Animation"], r.res.Additional["Alpha"])
    ELSE Ret(Nil, IF imx THEN "unsupported WebP chunk type" ELSE "ErrUnsupportedFormat",
             chunkType.pos)

-----------------------------------------------------------------------------
(* PNG                                                                     *)

sIHDR == <<73, 72, 68, 82>>
sICCP == <<105, 67, 67, 80>>
sEXIF == <<101, 88, 73, 102>>
sIEND == <<73, 69, 78, 68>>

\* the switch on colorType
pngColorSpace(colorType) ==
    CASE colorType = 0 -> "Grayscale"
      [] colorType = 2 -> "RGB"
      [] colorType = 3 -> "Indexed"
      [] colorType = 4 -> "GrayscaleAlpha"
      [] colorType = 6 -> "RGBA"
      [] OTHER -> "Unknown"

\* "Process IHDR chunk"
pngIHDR(result, chunkData) ==
    LET a1 == Put(result.Additional, "BitDepth", chunkData[9])
        a2 == Put(a1, "ColorType", chunkData[10])
        a3 == Put(a2, "CompressionMethod", chunkData[11])
        a4 == Put(a3, "FilterMethod", chunkData[12])
        a5 == Put(a4, "InterlaceMethod", chunkData[13])
    IN  [result EXCEPT
            !.Width = BEUint32(SubSeq(chunkData, 1, 4)),
            !.Height = BEUint32(SubSeq(chunkData, 5, 8)),
            !.ColorDepth = chunkData[9],
            !.ColorSpace = pngColorSpace(chunkData[10]),
            !.Additional = a5]

\* the test guarding "Process IHDR chunk"
pngIsIHDRExact(chunkTypeStr, length) == chunkTypeStr = sIHDR /\ length = 13

pngIsIHDR(chunkTypeStr, length) == chunkTypeStr = sIHDR /\ length >= 13

pngEXIFDropsOnError(result, chunkData) ==
    LET t == parseTIFF(chunkData) IN
    [result EXCEPT !.EXIF = IF t.err = "nil" THEN mergeMap(result.EXIF, t.exif) ELSE t.exif]

\* "Process eXIf chunk"
pngEXIF(result, chunkData) ==
    LET t == parseTIFF(chunkData) IN
    IF t.err = "nil" THEN [result EXCEPT !.EXIF = mergeMap(result.EXIF, t.exif)]
    ELSE result

\* what one pass of a decoder's loop leaves: the cursor, the result, the
\* locals, whether the loop goes on ("loop"), was left by break ("break") or
\* the function returned from inside it ("return", with err)
Pass(p, r, l, next, e) == [pos |-> p, res |-> r, loc |-> l, next |-> next, err |-> e]

\* borrowBuffer that takes a buffer from the pool whatever the size
borrowBufferAlways(imx, l, size) ==
    IF ~imx THEN l
    ELSE [l EXCEPT !.borrowed = @ + 1, !.poolOK = @ /\ l.borrowed = l.released]

\* borrowBuffer(size) as seen by the pool: nothing is taken for size <= 0 (the
\* result is nil).  Package formats (imx = FALSE) makes its buffers.
borrowBuffer(imx, l, size) ==
    IF ~imx \/ size <= 0 THEN l
    ELSE [l EXCEPT !.borrowed = @ + 1, !.poolOK = @ /\ l.borrowed = l.released]

\* releaseBuffer(buf) for buf = borrowBuffer(size): nothing is put back for nil
releaseBuffer(imx, l, size) ==
    IF ~imx \/ size <= 0 THEN l
    ELSE [l EXCEPT !.released = @ + 1, !.poolOK = @ /\ l.borrowed = l.released + 1]

\* pngChunk with the CRC field compared against the stored value (all zero
\* here); a mismatch ends the decode with an error
pngChunkChecksCRC(imx, d, p, result, l) ==
    LET lengthBytes == Rd(imx, d, p, 4) IN
    IF lengthBytes.err # "nil" THEN Pass(lengthBytes.pos, result, l, "break", "nil")
    ELSE
    LET length    == BEUint32(lengthBytes.buf)
        chunkType == Rd(imx, d, lengthBytes.pos, 4)
    IN
    IF chunkType.err # "nil" THEN Pass(chunkType.pos, result, l, "break", "nil")
    ELSE
    LET chunkData == IF length > 0 THEN Rd(imx, d, chunkType.pos, length)
                     ELSE [n |-> 0, err |-> "nil", buf |-> <<>>, pos |-> chunkType.pos]
        l1 == borrowBuffer(imx, [l EXCEPT !.tag = chunkType.buf, !.length = length,
                                          !.at = chunkType.pos], length)
    IN
    IF chunkData.err # "nil"
    THEN Pass(chunkData.pos, result, releaseBuffer(imx, l1, length), "break", "nil")
    ELSE
    LET crc == Rd(imx, d, chunkData.pos, 4)
        r1  == IF pngIsIHDR(chunkType.buf, length)
               THEN pngIHDR(result, chunkData.buf) ELSE result
        l2  == IF chunkType.buf = sICCP THEN [l1 EXCEPT !.hasICC = TRUE] ELSE l1
        r2  == IF chunkType.buf = sEXIF THEN pngEXIF(r1, chunkData.buf) ELSE r1
        l3  == releaseBuffer(imx, l2, length)
    IN  IF crc.err = "nil" /\ crc.buf # <<0, 0, 0, 0>>
        THEN Pass(crc.pos, Nil, l3, "return", InvalidData(imx))
        ELSE Pass(crc.pos, r2, l3, IF chunkType.buf = sIEND THEN "break" ELSE "loop", "nil")

\* one pass of the chunk loop of formats.ExtractPNG (imx = FALSE) and
\* imx.ExtractPNGMetadata (imx = TRUE)
pngChunk(imx, d, p, result, l) ==
    LET lengthBytes == Rd(imx, d, p, 4) IN
    IF lengthBytes.err # "nil" THEN Pass(lengthBytes.pos, result, l, "break", "nil")
    ELSE
    LET length    == BEUint32(lengthBytes.buf)
        chunkType == Rd(imx, d, lengthBytes.pos, 4)
    IN
    IF chunkType.err # "nil" THEN Pass(chunkType.pos, result, l, "break", "nil")
    ELSE
    LET chunkData == IF length > 0 THEN Rd(imx, d, chunkType.pos, length)
                     ELSE [n |-> 0, err |-> "nil", buf |-> <<>>, pos |-> chunkType.pos]
        l1 == borrowBuffer(imx, [l EXCEPT !.tag = chunkType.buf, !.length = length,
                                          !.at = chunkType.pos], length)
    IN
    IF chunkData.err # "nil"
    THEN Pass(chunkData.pos, result, releaseBuffer(imx, l1, length), "break", "nil")
    ELSE
    LET crc == Rd(imx, d, chunkData.pos, 4)
        r1  == IF pngIsIHDR(chunkType.buf, length)
               THEN pngIHDR(result, chunkData.buf) ELSE result
        l2  == IF chunkType.buf = sICCP THEN [l1 EXCEPT !.hasICC = TRUE] ELSE l1
        r2  == IF chunkType.buf = sEXIF THEN pngEXIF(r1, chunkData.buf) ELSE r1
        l3  == releaseBuffer(imx, l2, length)
    IN  Pass(crc.pos, r2, l3, IF chunkType.buf = sIEND THEN "break" ELSE "loop", "nil")

\* ExtractPNG up to the chunk loop: [res, err, pos]
pngHeader(imx, d) ==
    LET sig == Rd(imx, d, 0, 8) IN
    IF sig.err # "nil" THEN Ret(Nil, sig.err, sig.pos)
    ELSE IF \E i \in 1..8 : sig.buf[i] # pngSig[i] THEN Ret(Nil, InvalidData(imx), sig.pos)
    ELSE Ret(newResult, "nil", sig.pos)

\* ExtractPNG after the chunk loop
pngFinish(result, l) == [result EXCEPT !.HasICCProfile = l.hasICC]

-----------------------------------------------------------------------------
(* GIF                                                                     *)

sGIF      == <<71, 73, 70>>
sNETSCAPE == <<78, 69, 84, 83, 67, 65, 80, 69, 50, 46, 48>>

\* ExtractGIF up to the block loop: [res, err, pos]
gifHeader(imx, d) ==
    LET sig == Rd(imx, d, 0, 6) IN
    IF sig.err # "nil" THEN Ret(Nil, sig.err, sig.pos)
    ELSE IF SubSeq(sig.buf, 1, 3) # sGIF
            \/ (sig.buf[4] # 56 /\ sig.buf[4] # 57)
            \/ sig.buf[6] # 97
        THEN Ret(Nil, InvalidData(imx), sig.pos)
    ELSE
    LET version == SubSeq(sig.buf, 4, 6)
        lsd     == Rd(imx, d, sig.pos, 7)
    IN
    IF lsd.err # "nil" THEN Ret(Nil, lsd.err, lsd.pos)
    ELSE
    LET packed == lsd.buf[5]
        globalColorTableFlag == BitAnd(packed, 128) # 0
        colorResolution      == BitAnd(Shr(packed, 4), 7) + 1
        sortFlag             == BitAnd(packed, 8) # 0
        globalColorTableSize == BitAnd(packed, 7) + 1
        a0 == Put(EmptyMap, "Version", version)
        a1 == Put(a0, "GlobalColorTable", globalColorTableFlag)
        a2 == Put(a1, "ColorResolution", colorResolution)
        a3 == Put(a2, "SortFlag", sortFlag)
        a4 == Put(a3, "GlobalColorTableSize", globalColorTableSize)
        a5 == Put(a4, "BackgroundColorIndex", lsd.buf[6])
        a6 == Put(a5, "PixelAspectRatio", lsd.buf[7])
        r  == [newResult EXCEPT
                 !.Width = LEUint16(SubSeq(lsd.buf, 1, 2)),
                 !.Height = LEUint16(SubSeq(lsd.buf, 3, 4)),
                 !.ColorSpace = "Indexed",
                 !.ColorDepth = colorResolution * 3,
                 !.Additional = a6]
    IN  Ret(r, "nil",
            IF globalColorTableFlag
            THEN SeekCurrent(d, lsd.pos, 3 * Shl(1, globalColorTableSize))
            ELSE lsd.pos)

\* the sub-block skipping loops: [pos, err].  Package formats ignores every
\* read result (a failed read leaves the fresh size buffer 0, which ends the
\* loop); imx.skipSubBlocks returns the first read error.
RECURSIVE skipSubBlocks(_, _, _)
skipSubBlocks(imx, d, p) ==
    LET subBlockSize == Rd(imx, d, p, 1) IN
    IF imx /\ subBlockSize.err # "nil" THEN [pos |-> subBlockSize.pos, err |-> subBlockSize.err]
    ELSE IF subBlockSize.buf[1] = 0 THEN [pos |-> subBlockSize.pos, err |-> "nil"]
    ELSE
    LET subBlockData == Rd(imx, d, subBlockSize.pos, subBlockSize.buf[1]) IN
    IF imx /\ subBlockData.err # "nil" THEN [pos |-> subBlockData.pos, err |-> subBlockData.err]
    ELSE skipSubBlocks(imx, d, subBlockData.pos)

\* case 0xF9 (Graphic Control Extension); p is the cursor after the label
gifGraphicControl(imx, d, p, result, l) ==
    LET blockSize == Rd(imx, d, p, 1) IN
    IF imx /\ blockSize.err # "nil" THEN Pass(blockSize.pos, result, l, "return", "nil")
    ELSE IF blockSize.buf[1] = 4 THEN
        LET gceData == Rd(imx, d, blockSize.pos, 4) IN
        IF imx /\ gceData.err # "nil" THEN Pass(gceData.pos, result, l, "return", "nil")
        ELSE Pass(Rd(imx, d, gceData.pos, 1).pos, result,
                  IF BitAnd(gceData.buf[1], 1) # 0 THEN [l EXCEPT !.hasTransparency = TRUE]
                  ELSE l,
                  "loop", "nil")
    ELSE Pass(Rd(imx, d, blockSize.pos, 1).pos, result, l, "loop", "nil")

\* case 0xFF (Application Extension); p is the cursor after the label
gifApplication(imx, d, p, result, l) ==
    LET blockSize == Rd(imx, d, p, 1) IN
    IF imx /\ blockSize.err # "nil" THEN Pass(blockSize.pos, result, l, "return", "nil")
    ELSE IF blockSize.buf[1] = 11 THEN
        LET appData == Rd(imx, d, blockSize.pos, 11) IN
        IF imx /\ appData.err # "nil" THEN Pass(appData.pos, result, l, "return", "nil")
        ELSE
        LET l1 == IF appData.buf = sNETSCAPE THEN [l EXCEPT !.hasAnimation = TRUE] ELSE l
            sk == skipSubBlocks(imx, d, appData.pos)
        IN  IF sk.err # "nil" THEN Pass(sk.pos, result, l1, "return", "nil")
            ELSE Pass(sk.pos, result, l1, "loop", "nil")
    ELSE Pass(blockSize.pos, result, l, "loop", "nil")

\* case 0x2C (image separator); p is the cursor after the separator
gifImage(imx, d, p, result, l) ==
    LET l1      == [l EXCEPT !.frameCount = @ + 1]
        imgDesc == Rd(imx, d, p, 9)
    IN
    IF imx /\ imgDesc.err # "nil" THEN Pass(imgDesc.pos, result, l1, "return", "nil")
    ELSE
    LET p1 == IF BitAnd(imgDesc.buf[9], 128) # 0
              THEN SeekCurrent(d, imgDesc.pos, 3 * Shl(1, BitAnd(imgDesc.buf[9], 7) + 1))
              ELSE imgDesc.pos
        lzwMinCodeSize == Rd(imx, d, p1, 1)
        sk == skipSubBlocks(imx, d, lzwMinCodeSize.pos)
    IN  IF sk.err # "nil" THEN Pass(sk.pos, result, l1, "return", "nil")
        ELSE Pass(sk.pos, result, l1, "loop", "nil")

\* one pass of the block loop of formats.ExtractGIF (imx = FALSE) and
\* imx.ExtractGIFMetadata (imx = TRUE)
gifBlock(imx, d, p, result, l) ==
    LET blockType == Rd(imx, d, p, 1) IN
    IF blockType.err # "nil" THEN Pass(blockType.pos, result, l, "break", "nil")
    ELSE
    LET l0 == [l EXCEPT !.tag = blockType.buf, !.at = blockType.pos] IN
    IF blockType.buf[1] = 33 THEN
        LET extLabel == Rd(imx, d, blockType.pos, 1) IN
        IF extLabel.err # "nil"
        THEN IF imx THEN Pass(extLabel.pos, result, l0, "return", "nil")
             ELSE Pass(extLabel.pos, Nil, l0, "return", extLabel.err)
        ELSE IF extLabel.buf[1] = 249 THEN gifGraphicControl(imx, d, extLabel.pos, result, l0)
        ELSE IF extLabel.buf[1] = 255 THEN gifApplication(imx, d, extLabel.pos, result, l0)
        ELSE LET sk == skipSubBlocks(imx, d, extLabel.pos) IN
             IF sk.err # "nil" THEN Pass(sk.pos, result, l0, "return", "nil")
             ELSE Pass(sk.pos, result, l0, "loop", "nil")
    ELSE IF blockType.buf[1] = 44 THEN gifImage(imx, d, blockType.pos, result, l0)
    ELSE IF blockType.buf[1] = 59 THEN Pass(blockType.pos, result, l0, "return", "nil")
    ELSE Pass(blockType.pos, result, l0, "loop", "nil")

\* ExtractGIF after the block loop
gifFinish(result, l) ==
    [result EXCEPT !.Additional =
        Put(Put(Put(result.Additional, "HasTransparency", l.hasTransparency),
                "HasAnimation", l.hasAnimation),
            "FrameCount", l.frameCount)]

-----------------------------------------------------------------------------
(* JPEG                                                                    *)

sExif       == <<69, 120, 105, 102, 0, 0>>
sICCPROFILE == <<73, 67, 67, 95, 80, 82, 79, 70, 73, 76, 69>>

SOFMarkers == {192, 193, 194, 195, 197, 198, 199, 201, 202, 203, 205, 206, 207}

\* ExtractJPEG up to the segment loop: [res, err, pos]
jpegHeader(imx, d) ==
    LET buf == Rd(imx, d, 0, 2) IN
    IF buf.err # "nil" THEN Ret(Nil, buf.err, buf.pos)
    ELSE IF buf.buf[1] # 255 \/ buf.buf[2] # 216 THEN Ret(Nil, InvalidData(imx), buf.pos)
    ELSE Ret(newResult, "nil", buf.pos)

\* "Skip padding bytes": the loop reads two bytes at a time INTO THE SAME
\* marker buffer, so bytes a short read does not deliver keep the old content.
\* [pos, err, markerType]
RECURSIVE jpegSkipPadding(_, _, _, _)
jpegSkipPadding(imx, d, p, marker) ==
    IF marker[2] # 255 THEN [pos |-> p, err |-> "nil", markerType |-> marker[2]]
    ELSE
    LET rd == Rd(imx, d, p, 2) IN
    IF rd.err # "nil" THEN [pos |-> rd.pos, err |-> rd.err, markerType |-> 255]
    ELSE jpegSkipPadding(imx, d, rd.pos,
                         [i \in 1..2 |-> IF i <= rd.n THEN rd.buf[i] ELSE marker[i]])

\* case 0xE1 (APP1), after segmentData was read
jpegAPP1(result, segmentData) ==
    IF Len(segmentData) >= 6 /\ SubSeq(segmentData, 1, 6) = sExif THEN
        LET t == parseTIFF(SubSeq(segmentData, 7, Len(segmentData))) IN
        IF t.err = "nil" THEN [result EXCEPT !.EXIF = mergeMap(result.EXIF, t.exif)]
        ELSE result
    ELSE result

\* the switch on numComponents
jpegColorSpace(numComponents) ==
    CASE numComponents = 1 -> "Grayscale"
      [] numComponents = 3 -> "RGB"
      [] numComponents = 4 -> "CMYK"
      [] OTHER -> "Unknown"

jpegSOFSwapped(result, sofData) ==
    IF Len(sofData) >= 5 THEN
        LET r1 == [result EXCEPT
                      !.ColorDepth = sofData[1] * 3,
                      !.Additional = Put(@, "BitsPerSample", sofData[1]),
                      !.Height = BEUint16(SubSeq(sofData, 4, 5)),
                      !.Width = BEUint16(SubSeq(sofData, 2, 3))]
        IN  IF Len(sofData) >= 6
            THEN [r1 EXCEPT !.Additional = Put(@, "Components", sofData[6]),
                            !.ColorSpace = jpegColorSpace(sofData[6])]
            ELSE r1
    ELSE result

\* the SOF case, after sofData was read
jpegSOF(result, sofData) ==
    IF Len(sofData) >= 5 THEN
        LET r1 == [result EXCEPT
                      !.ColorDepth = sofData[1] * 3,
                      !.Additional = Put(@, "BitsPerSample", sofData[1]),
                      !.Height = BEUint16(SubSeq(sofData, 2, 3)),
                      !.Width = BEUint16(SubSeq(sofData, 4, 5))]
        IN  IF Len(sofData) >= 6
            THEN [r1 EXCEPT !.Additional = Put(@, "Components", sofData[6]),
                            !.ColorSpace = jpegColorSpace(sofData[6])]
            ELSE r1
    ELSE result

\* the payload of an APP1 / APP2 / SOF segment: [err, buf, pos], err = "panic"
\* where the Go runtime faults.  formats: make([]byte, n) panics for n < 0.
\* imx: borrowBuffer(n) is nil for n <= 0 (APP1 / APP2); sofBuf[:n] panics for
\* n < 0 (SOF).
jpegPayload(imx, d, p, n, pooled) ==
    IF n < 0 THEN
        IF imx /\ pooled THEN [err |-> "nil", buf |-> <<>>, pos |-> p, n |-> 0]
        ELSE [err |-> "panic", buf |-> <<>>, pos |-> p, n |-> 0]
    ELSE Rd(imx, d, p, n)

\* one pass of the segment loop of formats.ExtractJPEG (imx = FALSE) and
\* imx.ExtractJPEGMetadata (imx = TRUE)
jpegSegment(imx, d, p, result, l) ==
    LET marker == Rd(imx, d, p, 2) IN
    IF marker.err # "nil" THEN Pass(marker.pos, result, l, "break", "nil")
    ELSE IF marker.buf[1] # 255 THEN Pass(marker.pos, result, l, "break", "nil")
    ELSE
    LET pad == jpegSkipPadding(imx, d, marker.pos, marker.buf) IN
    IF pad.err # "nil"
    THEN IF imx THEN Pass(pad.pos, result, l, "return", "nil")
         ELSE Pass(pad.pos, Nil, l, "return", pad.err)
    ELSE
    LET markerType == pad.markerType
        l0 == [l EXCEPT !.tag = <<markerType>>, !.at = pad.pos, !.length = 0]
    IN
    IF markerType = 217 THEN Pass(pad.pos, result, l0, "break", "nil")
    ELSE IF markerType >= 208 /\ markerType <= 215 THEN Pass(pad.pos, result, l0, "loop", "nil")
    ELSE
    LET lengthBytes == Rd(imx, d, pad.pos, 2) IN
    IF lengthBytes.err # "nil" THEN Pass(lengthBytes.pos, result, l0, "break", "nil")
    ELSE
    LET length == BEUint16(lengthBytes.buf) - 2
        q      == lengthBytes.pos
        l1     == [l0 EXCEPT !.length = length, !.at = q]
    IN
    IF markerType = 224 THEN Pass(SeekCurrent(d, q, length), result, l1, "loop", "nil")
    ELSE IF markerType = 225 THEN
        LET segmentData == jpegPayload(imx, d, q, length, TRUE)
            l2 == borrowBuffer(imx, l1, length)
        IN
        IF segmentData.err = "panic" THEN Pass(q, Nil, l1, "return", "panic")
        ELSE IF segmentData.err # "nil"
        THEN Pass(segmentData.pos, result, releaseBuffer(imx, l2, length), "loop", "nil")
        ELSE Pass(segmentData.pos, jpegAPP1(result, segmentData.buf),
                  releaseBuffer(imx, l2, length), "loop", "nil")
    ELSE IF markerType = 226 THEN
        LET segmentData == jpegPayload(imx, d, q, length, TRUE)
            l2 == borrowBuffer(imx, l1, length)
        IN
        IF segmentData.err = "panic" THEN Pass(q, Nil, l1, "return", "panic")
        ELSE IF segmentData.err # "nil"
        THEN Pass(segmentData.pos, result, releaseBuffer(imx, l2, length), "loop", "nil")
        ELSE Pass(segmentData.pos, result,
                  releaseBuffer(imx,
                      IF Len(segmentData.buf) >= 11
                         /\ SubSeq(segmentData.buf, 1, 11) = sICCPROFILE
                      THEN [l2 EXCEPT !.hasICC = TRUE] ELSE l2,
                      length),
                  "loop", "nil")
    ELSE IF markerType \in SOFMarkers THEN
        LET readLen == IF length > 9 THEN 9 ELSE length
            sofData == jpegPayload(imx, d, q, readLen, FALSE)
        IN
        IF sofData.err = "panic" THEN Pass(q, Nil, l1, "return", "panic")
        ELSE IF sofData.err # "nil" THEN Pass(sofData.pos, result, l1, "loop", "nil")
        ELSE Pass(IF length > 9 THEN SeekCurrent(d, sofData.pos, length - 9) ELSE sofData.pos,
                  jpegSOF(result, sofData.buf), l1, "loop", "nil")
    ELSE Pass(SeekCurrent(d, q, length), result, l1, "loop", "nil")

\* ExtractJPEG after the segment loop
jpegFinish(result, l) ==
    [result EXCEPT !.HasICCProfile = l.hasICC,
                   !.ColorSpace = IF @ = "" THEN "RGB" ELSE @]

-----------------------------------------------------------------------------
(* The calls as a state machine                                            *)

Formats == {"JPEG", "PNG", "GIF", "WebP", "BMP"}

\* the decoders' locals before a loop starts; tag / length / at describe the
\* chunk, block or segment the last pass handled (its type bytes, its length
\* field, the offset of its payload); depth is the deepest directory a direct
\* call of parseTIFF parsed; borrowed / released count the buffers taken from
\* and put back into bytePool, poolOK tells that no buffer was taken while
\* another was out and none was put back that was not out
LocInit ==
    [hasICC |-> FALSE, hasTransparency |-> FALSE, hasAnimation |-> FALSE,
     frameCount |-> 0, tag |-> <<>>, length |-> 0, at |-> 0, depth |-> -1,
     borrowed |-> 0, released |-> 0, poolOK |-> TRUE]

\* package imx's decoders are entered directly; metadataFromSeeker and
\* formats.Extract run package formats
Imx == via = "imx"

\* no call has been made on the source yet
NoOutcome == [none |-> TRUE]

\* entry point v may start: on a fresh source, or again after the source was
\* rewound
Starts(v) == pc = "idle" \/ (pc = "rewound" /\ via = v)

\* metadataFromSeeker, up to the call of formats.Extract; the magic bytes are
\* read at the cursor
metadataFromSeeker ==
    /\ Starts("metadataFromSeeker")
    /\ LET m == Read(data, pos, 16)
           mb == SubSeq(m.buf, 1, m.n)
           f == Detect(mb)
       IN  /\ via' = "metadataFromSeeker"
           /\ IF m.err # "nil" /\ m.n = 0
              THEN /\ pc' = "done"
                   /\ err' = "ErrInvalidSource"
                   /\ pos' = m.pos
                   /\ UNCHANGED <<format, magic>>
              ELSE /\ magic' = mb
                   /\ format' = f
                   /\ IF f = ""
                      THEN pc' = "done" /\ err' = "ErrUnsupportedFormat" /\ pos' = m.pos
                      ELSE pc' = "extract" /\ err' = "nil" /\ pos' = 0
    /\ UNCHANGED <<data, res, md, loc, first>>

\* r.Read(buf) with len(buf) = n on a source that may split its reads: any
\* k in 1 .. min(n, bytes left) bytes come back with a nil error (the io.Reader
\* contract), io.EOF when none is left
ShortReads(d, p, n) ==
    LET avail == IF p >= Len(d) THEN 0 ELSE Len(d) - p IN
    IF avail = 0 \/ n = 0 THEN { Read(d, p, n) }
    ELSE { [n   |-> k,
            err |-> "nil",
            buf |-> [i \in 1..n |-> IF i <= k THEN d[p + i] ELSE 0],
            pos |-> p + k] : k \in 1..Min(n, avail) }

\* metadataFromSeeker on such a source, up to the call of formats.Extract: the
\* magic bytes are whatever the one Read call delivered
metadataFromSeekerShort ==
    /\ Starts("metadataFromSeeker")
    /\ \E m \in ShortReads(data, pos, 16) :
          LET mb == SubSeq(m.buf, 1, m.n)
              f == Detect(mb)
          IN  /\ via' = "metadataFromSeeker"
              /\ IF m.err # "nil" /\ m.n = 0
                 THEN /\ pc' = "done"
                      /\ err' = "ErrInvalidSource"
                      /\ pos' = m.pos
                      /\ UNCHANGED <<format, magic>>
                 ELSE /\ magic' = mb
                      /\ format' = f
                      /\ IF f = ""
                         THEN pc' = "done" /\ err' = "ErrUnsupportedFormat" /\ pos' = m.pos
                         ELSE pc' = "extract" /\ err' = "nil" /\ pos' = 0
    /\ UNCHANGED <<data, res, md, loc, first>>

\* formats.Extract(f, r) called on its own
Extract(f) ==
    /\ Starts("formats.Extract")
    /\ pc = "rewound" => format = f
    /\ via' = "formats.Extract"
    /\ format' = f
    /\ pc' = "extract"
    /\ pos' = 0
    /\ UNCHANGED <<data, res, err, md, loc, magic, first>>

\* one of package imx's decoders (Extract<F>Metadata) called on its own
ExtractMetadata(f) ==
    /\ Starts("imx")
    /\ pc = "rewound" => format = f
    /\ via' = "imx"
    /\ format' = f
    /\ pc' = "extract"
    /\ pos' = 0
    /\ UNCHANGED <<data, res, err, md, loc, magic, first>>

\* a straight-line decoder returns r
Returns(r) ==
    /\ pc' = "returned"
    /\ res' = r.res
    /\ err' = r.err
    /\ pos' = r.pos

CallExtractBMP ==
    /\ pc = "extract" /\ format = "BMP"
    /\ Returns(ExtractBMP(Imx, data))
    /\ UNCHANGED <<data, via, format, md, loc, magic, first>>

CallExtractWebP ==
    /\ pc = "extract" /\ format = "WebP"
    /\ Returns(ExtractWebP(Imx, data))
    /\ UNCHANGED <<data, via, format, md, loc, magic, first>>

\* a looping decoder's header returned h: fail, or enter the loop
Enters(h, loop) ==
    /\ res' = h.res
    /\ err' = h.err
    /\ pos' = h.pos
    /\ pc' = IF h.err # "nil" THEN "returned" ELSE loop
    /\ loc' = LocInit

\* one pass x of a decoder's loop
Passes(x, loop, end) ==
    /\ pos' = x.pos
    /\ res' = x.res
    /\ loc' = x.loc
    /\ err' = x.err
    /\ pc' = CASE x.next = "loop" -> loop
               [] x.next = "break" -> end
               [] x.next = "return" -> IF x.err = "panic" THEN "panicked" ELSE "returned"

ExtractPNGHeader ==
    /\ pc = "extract" /\ format = "PNG"
    /\ Enters(pngHeader(Imx, data), "png_loop")
    /\ UNCHANGED <<data, via, format, md, magic, first>>

ExtractPNGChunk ==
    /\ pc = "png_loop"
    /\ Passes(pngChunk(Imx, data, pos, res, loc), "png_loop", "png_end")
    /\ UNCHANGED <<data, via, format, md, magic, first>>

ExtractPNGReturn ==
    /\ pc = "png_end"
    /\ res' = pngFinish(res, loc)
    /\ pc' = "returned"
    /\ UNCHANGED <<data, pos, via, format, err, md, loc, magic, first>>

ExtractGIFHeader ==
    /\ pc = "extract" /\ format = "GIF"
    /\ Enters(gifHeader(Imx, data), "gif_loop")
    /\ UNCHANGED <<data, via, format, md, magic, first>>

ExtractGIFBlock ==
    /\ pc = "gif_loop"
    /\ Passes(gifBlock(Imx, data, pos, res, loc), "gif_loop", "gif_end")
    /\ UNCHANGED <<data, via, format, md, magic, first>>

ExtractGIFReturn ==
    /\ pc = "gif_end"
    /\ res' = gifFinish(res, loc)
    /\ pc' = "returned"
    /\ UNCHANGED <<data, pos, via, format, err, md, loc, magic, first>>

ExtractJPEGHeader ==
    /\ pc = "extract" /\ format = "JPEG"
    /\ Enters(jpegHeader(Imx, data), "jpeg_loop")
    /\ UNCHANGED <<data, via, format, md, magic, first>>

ExtractJPEGSegment ==
    /\ pc = "jpeg_loop"
    /\ Passes(jpegSegment(Imx, data, pos, res, loc), "jpeg_loop", "jpeg_end")
    /\ UNCHANGED <<data, via, format, md, magic, first>>

ExtractJPEGReturn ==
    /\ pc = "jpeg_end"
    /\ res' = jpegFinish(res, loc)
    /\ pc' = "returned"
    /\ UNCHANGED <<data, pos, via, format, err, md, loc, magic, first>>

\* parseTIFF called on the blob `data`: res is the returned map (as the EXIF
\* field of a record), loc.depth the deepest directory the call parsed
CallParseTIFF ==
    /\ pc = "idle"
    /\ LET t == parseTIFF(data) IN
       /\ res' = IF t.err = "nil" THEN [EXIF |-> t.exif] ELSE Nil
       /\ err' = t.err
       /\ loc' = [LocInit EXCEPT !.depth = t.deepest]
    /\ via' = "parseTIFF"
    /\ format' = "TIFF"
    /\ pc' = "returned"
    /\ UNCHANGED <<data, pos, md, magic, first>>

\* metadataFromSeeker after formats.Extract returned
imageMetadata(f, size, result) ==
    [Format |-> f, FileSize |-> size,
     Width |-> result.Width, Height |-> result.Height,
     ColorDepth |-> result.ColorDepth, ColorSpace |-> result.ColorSpace,
     HasICCProfile |-> result.HasICCProfile,
     EXIF |-> result.EXIF, Additional |-> result.Additional]

metadataFromSeekerReturn ==
    /\ pc = "returned" /\ via = "metadataFromSeeker"
    /\ pc' = "done"
    /\ md' = IF err # "nil" THEN Nil ELSE imageMetadata(format, Len(data), res)
    /\ UNCHANGED <<data, pos, via, format, res, err, loc, magic, first>>

\* the caller keeps the cursor where the first call left it
RewindForgotten ==
    /\ first = NoOutcome
    /\ pc = "done" \/ (pc = "returned" /\ via \in {"formats.Extract", "imx"})
    /\ first' = [res |-> res, err |-> err, md |-> md]
    /\ pc' = "rewound"
    /\ res' = Nil
    /\ err' = "nil"
    /\ md' = Nil
    /\ loc' = LocInit
    /\ magic' = <<>>
    /\ UNCHANGED <<data, pos, via, format>>

\* after a call has come back the caller keeps its outcome, seeks the source
\* back to offset 0 (or wraps the same bytes in a new bytes.Reader) and is
\* about to make the same call again
Rewind ==
    /\ first = NoOutcome
    /\ pc = "done" \/ (pc = "returned" /\ via \in {"formats.Extract", "imx"})
    /\ first' = [res |-> res, err |-> err, md |-> md]
    /\ pos' = 0
    /\ pc' = "rewound"
    /\ res' = Nil
    /\ err' = "nil"
    /\ md' = Nil
    /\ loc' = LocInit
    /\ magic' = <<>>
    /\ UNCHANGED <<data, via, format>>

\* the keys of r's exif map whose values are []byte: readTagValue returns them
\* as sub-slices of the blob it was given, which package imx's PNG and JPEG
\* decoders keep in a buffer borrowed from bytePool
Aliased(r) == { k \in DOMAIN r.EXIF : r.EXIF[k].t = "[]byte" /\ Len(r.EXIF[k].v) > 0 }

\* the bytes another decode reads into the buffer
PoolBytes == {0, 255}

\* the buffer was released before the decoder returned; a later or concurrent
\* decode borrows it from bytePool and reads its own payload into it, which
\* the []byte values of the returned record share
PoolReuse ==
    /\ pc = "returned" /\ via = "imx"
    /\ res # Nil
    /\ Aliased(res) # {}
    /\ \E x \in PoolBytes :
          res' = [res EXCEPT !.EXIF =
                     [k \in DOMAIN @ |->
                         IF k \in Aliased(res)
                         THEN Val("[]byte", [i \in 1..Len(@[k].v) |-> x])
                         ELSE @[k]]]
    /\ UNCHANGED <<data, pos, pc, via, format, err, md, loc, magic, first>>

-----------------------------------------------------------------------------
(* The byte sources the calls are made on                                  *)

\* how many chunks / blocks / segments a composed stream holds after its
\* header, and how many bytes of pixel data follow a BMP or WebP header
MaxChunks == 2
MaxBlocks == 2
MaxSegs   == 2
MaxTrail  == 2

\* how many 0xFF fill bytes are put in front of a JPEG marker
MaxFill == 3

Zeros(n) == [i \in 1..n |-> 0]
Prefixes(s) == {SubSeq(s, 1, k) : k \in 0..Len(s)}
Mutate(s, i, b) == [s EXCEPT ![i] = b]

\* the byte encodings the decoders undo (two's complement for negatives)
U16LE(v) == <<v % 256, (v \div 256) % 256>>
U32LE(v) == <<v % 256, (v \div 256) % 256, (v \div 65536) % 256, (v \div 16777216) % 256>>
U16BE(v) == <<(v \div 256) % 256, v % 256>>
U32BE(v) == <<(v \div 16777216) % 256, (v \div 65536) % 256, (v \div 256) % 256, v % 256>>

\* every concatenation of at most k pieces of lib
RECURSIVE Compose(_, _)
Compose(lib, k) ==
    IF k = 0 THEN {<<>>}
    ELSE LET shorter == Compose(lib, k - 1)
         IN  shorter \cup {c \o x : c \in shorter, x \in lib}

\* a TIFF blob: little-endian header, one IFD holding Orientation = 6
tinyTIFF ==
    <<73, 73, 42, 0>> \o U32LE(8) \o U16LE(1)
        \o U16LE(exifTagOrientation) \o U16LE(exifTypeShort) \o U32LE(1) \o <<6, 0, 0, 0>>
        \o U32LE(0)

\* ---- signatures (TestDetectFormat's rows, padded to 16 bytes) ----
SigBases ==
    { <<255, 216, 255, 224>> \o Zeros(12),
      pngSig \o <<0, 0, 0, 13>> \o sIHDR,
      sGIF \o <<56, 55, 97>> \o Zeros(10),
      sGIF \o <<56, 57, 97>> \o Zeros(10),
      sRIFF \o Zeros(4) \o sWEBP \o sVP8,
      <<66, 77>> \o Zeros(14),
      Zeros(16) }

SigBytes == {0, 55, 56, 57, 216, 255}

\* the positions a signature rule looks at
SigAt(b) == IF SubSeq(b, 1, 8) = pngSig THEN 1..8 ELSE 1..12

DetectInputs ==
    UNION { Prefixes(x) :
            x \in SigBases
                   \cup UNION { { Mutate(b, i, v) : i \in SigAt(b), v \in SigBytes } :
                                b \in SigBases } }

\* ---- BMP (createMinimalBMP with other header fields) ----
bmpFile(dib) == <<66, 77>> \o U32LE(54 + Len(dib)) \o Zeros(4) \o U32LE(54) \o dib

bmpInfo(dibSize, w, h, bpp, compression) ==
    U32LE(dibSize) \o U32LE(w) \o U32LE(h) \o U16LE(1) \o U16LE(bpp)
        \o U32LE(compression) \o U32LE(0) \o U32LE(2835) \o U32LE(2835) \o U32LE(0) \o U32LE(0)

bmpCore(w, h, bpp) == U32LE(12) \o U16LE(w) \o U16LE(h) \o U16LE(1) \o U16LE(bpp)

BMPDims == {0, 1, 100, -1, -100, 2147483647, MinInt32}
BMPCoreDims == {0, 100, -1, 32767, -32768}

BMPFiles ==
    { bmpFile(bmpInfo(40, w, h, 24, 0)) : w \in BMPDims, h \in BMPDims }
    \cup { bmpFile(bmpInfo(s, 100, -100, b, c)) :
           s \in {0, 39, 40, 124}, b \in {1, 2, 4, 8, 16, 24, 32}, c \in {0, 3, 5, 6} }
    \cup { bmpFile(bmpCore(w, h, b)) : w \in BMPCoreDims, h \in BMPCoreDims, b \in {8, 24} }
    \cup { Mutate(bmpFile(bmpInfo(40, 100, 100, 24, 0)), 2, 78) }

BMPInputs == UNION { Prefixes(f \o Zeros(MaxTrail)) : f \in BMPFiles }

\* ---- WebP (createMinimalWebP with other chunks) ----
webpFile(form, tag, body) == sRIFF \o U32LE(4 + Len(tag) + Len(body)) \o form \o tag \o body

\* flag bytes of the VP8X header: none, animation, alpha, ICC and mixes of them
VP8XFlags == {0, 2, 16, 18, 32, 48, 255}

WebPBodies ==
    { <<sVP8, <<157, 1, 42, a, 0, 0>> \o wh>> :
          a \in {0, 255}, wh \in { <<99, 0, 99, 0>>, <<255, 63, 255, 63>>, <<0, 0, 0, 0>>,
                                   <<255, 255, 1, 64>>, <<0, 128, 57, 193>> } }
    \cup { <<sVP8, U32LE(10) \o <<157, 1, 42, 0, 0, 0>> >>,
           <<sVP8, <<157, 1, 43, 0, 0, 0, 99, 0, 99, 0>> >>,
           <<sVP8L, <<47, 99, 192, 24, 0>> >>,
           <<sVP8L, <<47, 255, 255, 255, 255>> >>,
           <<sVP8L, <<46, 99, 192, 24, 0>> >>,
           <<sVP8X, sVP8X \o <<16, 0, 99, 0, 48, 6>> >>,
           <<sVP8X, sVP8X \o <<34, 0, 255, 255, 255, 255>> >>,
           <<sVP8X, U32LE(10) \o <<16, 0, 0, 0, 99, 0>> >>,
           <<<<65, 76, 80, 72>>, <<0, 0, 0, 0>> >> }
    \cup { <<sVP8X, sVP8X \o <<fl, 0, 99, 0, 48, 6>> >> : fl \in VP8XFlags }

WebPFiles ==
    { webpFile(sWEBP, tb[1], tb[2]) : tb \in WebPBodies }
    \cup { webpFile(<<87, 65, 86, 69>>, sVP8, <<157, 1, 42, 0, 0, 0, 99, 0, 99, 0>>),
           Mutate(webpFile(sWEBP, sVP8, <<157, 1, 42, 0, 0, 0, 99, 0, 99, 0>>), 1, 0) }

WebPInputs == UNION { Prefixes(f \o Zeros(MaxTrail)) : f \in WebPFiles }

\* ---- PNG (createMinimalPNG with other chunks) ----
pngChunkBytes(type, payload) == U32BE(Len(payload)) \o type \o payload \o Zeros(4)

ihdr(w, h, bitDepth, colorType) == U32BE(w) \o U32BE(h) \o <<bitDepth, colorType, 0, 0, 0>>

sIDAT == <<73, 68, 65, 84>>

PNGChunkLib ==
    { pngChunkBytes(sIHDR, ihdr(100, 100, 8, 2)),
      pngChunkBytes(sIHDR, ihdr(1, 2, 16, 6) \o <<7>>),
      pngChunkBytes(sIHDR, SubSeq(ihdr(100, 100, 8, 2), 1, 12)),
      pngChunkBytes(sICCP, <<65, 0>>),
      pngChunkBytes(sEXIF, tinyTIFF),
      pngChunkBytes(sIDAT, <<1, 2, 3>>),
      pngChunkBytes(sIEND, <<>>) }

PNGFiles ==
    { pngSig \o c : c \in Compose(PNGChunkLib, MaxChunks) }
    \cup { pngSig \o pngChunkBytes(sIHDR, ihdr(w, h, b, c)) \o pngChunkBytes(sIEND, <<>>) :
           w \in {0, 100, 2147483647}, h \in {100, 65536}, b \in {8, 16},
           c \in {0, 2, 3, 4, 5, 6} }
    \cup { Mutate(pngSig \o pngChunkBytes(sIHDR, ihdr(100, 100, 8, 2)), 1, 0) }

PNGInputs == UNION { Prefixes(f) : f \in PNGFiles }

\* ---- GIF (createMinimalGIF with other blocks) ----
gifScreen(version, w, h, packed) == sGIF \o version \o U16LE(w) \o U16LE(h) \o <<packed, 0, 0>>

gifColorTable(packed) ==
    IF packed >= 128 THEN Zeros(3 * Pow2((packed % 8) + 1)) ELSE <<>>

gifImageBlock == <<44>> \o Zeros(9) \o <<2, 2, 68, 1, 0>>

GIFBlockLib ==
    { gifImageBlock,
      <<44>> \o Zeros(8) \o <<128>> \o Zeros(6) \o <<2, 1, 59, 0>>,
      <<33, 249, 4, 1, 0, 0, 0, 0>>,
      <<33, 249, 4, 0, 0, 0, 0, 0>>,
      <<33, 255, 11>> \o sNETSCAPE \o <<3, 1, 0, 0, 0>>,
      <<33, 255, 3, 44, 44, 44, 0>>,
      <<33, 254, 2, 44, 59, 0>>,
      <<59>> }

GIFFiles ==
    { gifScreen(<<56, 57, 97>>, 100, 100, 0) \o b : b \in Compose(GIFBlockLib, MaxBlocks) }
    \cup { gifScreen(v, wh[1], wh[2], k) \o gifColorTable(k) \o gifImageBlock \o <<59>> :
           v \in { <<56, 57, 97>>, <<56, 55, 97>>, <<56, 56, 97>>, <<57, 55, 97>>,
                   <<56, 57, 98>> },
           wh \in { <<100, 100>>, <<65535, 1>>, <<0, 0>> },
           k \in {0, 128, 145} }
    \cup { gifScreen(<<56, 57, 97>>, 100, 100, 128) \o Zeros(3) \o gifImageBlock \o <<59>>,
           Mutate(gifScreen(<<56, 57, 97>>, 100, 100, 0) \o gifImageBlock \o <<59>>, 3, 88) }

GIFInputs == UNION { Prefixes(f) : f \in GIFFiles }

\* ---- JPEG (createMinimalJPEG with other segments) ----
jpegSeg(marker, lengthField, payload) == <<255, marker>> \o U16BE(lengthField) \o payload

sof(precision, h, w, numComponents) ==
    <<precision>> \o U16BE(h) \o U16BE(w) \o <<numComponents>>

JPEGSegLib ==
    { jpegSeg(224, 4, <<74, 70>>),
      jpegSeg(192, 11, sof(8, 100, 100, 3) \o <<1, 17, 0>>),
      jpegSeg(194, 8, sof(12, 16, 32, 1)),
      jpegSeg(226, 15, sICCPROFILE \o <<1, 1>>),
      jpegSeg(225, 34, sExif \o tinyTIFF),
      jpegSeg(225, 0, <<>>),
      jpegSeg(219, 1, <<>>),
      <<255>>,
      <<255, 208>>,
      <<255, 217>>,
      <<0>> }

JPEGFiles ==
    { <<255, 216>> \o c : c \in Compose(JPEGSegLib, MaxSegs) }
    \cup { <<255, 216>> \o jpegSeg(m, 8, sof(8, 100, 100, 3)) \o <<255, 217>> :
           m \in 192..207 }
    \cup { <<255, 216>> \o jpegSeg(192, n + 2, SubSeq(sof(p, hw[1], hw[2], c) \o Zeros(9), 1, n))
               \o <<255, 217>> :
           n \in {4, 5, 6, 9, 15}, p \in {8, 12}, hw \in { <<100, 100>>, <<65535, 1>> },
           c \in {1, 2, 3, 4} }
    \cup { Mutate(<<255, 216>> \o jpegSeg(192, 8, sof(8, 100, 100, 3)), 2, 0) }
    \cup { <<255, 216>> \o [i \in 1..k |-> 255] \o seg \o <<255, 217>> :
           k \in 1..MaxFill,
           seg \in { jpegSeg(192, 8, sof(8, 100, 100, 3)),
                     jpegSeg(225, 34, sExif \o tinyTIFF) } }

JPEGInputs == UNION { Prefixes(f) : f \in JPEGFiles }

\* ---- TIFF blobs (the payload of an APP1 segment or an eXIf chunk) ----
boBytes16(byteOrder, v) == IF byteOrder = "II" THEN U16LE(v) ELSE U16BE(v)
boBytes32(byteOrder, v) == IF byteOrder = "II" THEN U32LE(v) ELSE U32BE(v)

tiffHeader(byteOrder, ifdOffset) ==
    (IF byteOrder = "II" THEN <<73, 73>> ELSE <<77, 77>>)
        \o boBytes16(byteOrder, 42) \o boBytes32(byteOrder, ifdOffset)

\* a 12-byte directory entry whose value / offset field holds a number
ifdEntry(byteOrder, tag, dataType, count, valueOffset) ==
    boBytes16(byteOrder, tag) \o boBytes16(byteOrder, dataType)
        \o boBytes32(byteOrder, count) \o boBytes32(byteOrder, valueOffset)

\* a SHORT entry with count 1: the value sits in the first two bytes of the field
ifdShort(byteOrder, tag, v) ==
    boBytes16(byteOrder, tag) \o boBytes16(byteOrder, exifTypeShort)
        \o boBytes32(byteOrder, 1) \o boBytes16(byteOrder, v) \o <<0, 0>>

\* a directory of two entries and its next-directory link (2 + 24 + 4 bytes)
ifd2(byteOrder, e1, e2) == boBytes16(byteOrder, 2) \o e1 \o e2 \o boBytes32(byteOrder, 0)
ifd1(byteOrder, e1) == boBytes16(byteOrder, 1) \o e1 \o boBytes32(byteOrder, 0)

ByteOrders == {"II", "MM"}

\* two directories, at 8 and at 38, each holding one tag and one ExifIFD
\* pointer; the pointers p0 and p1 go to a directory, to the header, or past
\* the end of the 68-byte blob
IFDTargets == {0, 8, 38, 67, 68}

tiffLinked(byteOrder, p0, p1) ==
    tiffHeader(byteOrder, 8)
        \o ifd2(byteOrder, ifdShort(byteOrder, exifTagOrientation, 6),
                           ifdEntry(byteOrder, exifTagExifIFD, exifTypeLong, 1, p0))
        \o ifd2(byteOrder, ifdShort(byteOrder, exifTagISO, 100),
                           ifdEntry(byteOrder, exifTagExifIFD, exifTypeLong, 1, p1))

\* one directory at 8 holding one (signed) rational of count 1 stored at 26;
\* numerators with the top bit set go with the denominator 0 only
RationalNums == {0, 1, 72, 2147483647}
RationalTopNums == {-1, MinInt32}
RationalDens == {0, 1, 300}

tiffRational(byteOrder, dataType, num, den) ==
    tiffHeader(byteOrder, 8)
        \o ifd1(byteOrder, ifdEntry(byteOrder, exifTagXResolution, dataType, 1, 26))
        \o boBytes32(byteOrder, num) \o boBytes32(byteOrder, den)

\* one directory at 8 holding Orientation and one entry of any type, count
\* and offset, followed by 8 bytes of value data at 38
EntryCounts == {0, 1, 2, 3, 8, 9}
EntryOffsets == {0, 38, 45, 46, 200}
EntryTypes == {0, exifTypeByte, exifTypeASCII, exifTypeShort, exifTypeLong,
               exifTypeRational, exifTypeUndefined, exifTypeSLong, exifTypeSRational, 11}

tiffEntry(byteOrder, dataType, count, valueOffset) ==
    tiffHeader(byteOrder, 8)
        \o ifd2(byteOrder, ifdShort(byteOrder, exifTagOrientation, 6),
                           ifdEntry(byteOrder, exifTagMake, dataType, count, valueOffset))
        \o <<67, 97, 110, 111, 110, 0, 1, 0>>

TIFFBlobs ==
    { tiffLinked(bo, p0, p1) : bo \in ByteOrders, p0 \in IFDTargets, p1 \in IFDTargets }
    \cup { tiffRational(bo, t, n, d) : bo \in ByteOrders,
               t \in {exifTypeRational, exifTypeSRational},
               n \in RationalNums, d \in RationalDens }
    \cup { tiffRational(bo, t, n, 0) : bo \in ByteOrders,
               t \in {exifTypeRational, exifTypeSRational}, n \in RationalTopNums }
    \cup { tiffEntry(bo, t, c, o) : bo \in ByteOrders, t \in EntryTypes,
               c \in EntryCounts, o \in EntryOffsets }

\* the blobs, their truncations, and headers with a wrong byte order, a wrong
\* magic number or a first-directory offset at or past the end
TIFFInputs ==
    TIFFBlobs
    \cup UNION { Prefixes(tiffLinked(bo, 8, 38)) : bo \in ByteOrders }
    \cup UNION { Prefixes(tiffRational(bo, exifTypeRational, 72, 0)) : bo \in ByteOrders }
    \cup { Mutate(tinyTIFF, i, v) : i \in 1..8, v \in {0, 26, 27, 42, 73, 77} }

\* ---- PNG and JPEG files carrying TIFF blobs ----
EXIFBlobs ==
    { tiffEntry(bo, t, c, o) : bo \in ByteOrders,
          t \in {exifTypeByte, exifTypeASCII, exifTypeShort, exifTypeRational, exifTypeUndefined},
          c \in {1, 3, 8}, o \in {38, 200} }
    \cup { tiffLinked(bo, 8, 38) : bo \in ByteOrders }
    \cup Prefixes(tinyTIFF)
    \cup { Mutate(tinyTIFF, i, v) : i \in 1..8, v \in {0, 26, 27, 42, 73, 77} }

\* a file whose eXIf chunk / APP1 segment holds blob, with or without a
\* well-formed one in front of it
EXIFFiles ==
    UNION { { pngSig \o pngChunkBytes(sIHDR, ihdr(100, 100, 8, 2)) \o lead
                  \o pngChunkBytes(sEXIF, blob) \o pngChunkBytes(sIEND, <<>>) :
              lead \in {<<>>, pngChunkBytes(sEXIF, tinyTIFF)} }
            \cup
            { <<255, 216>> \o lead \o jpegSeg(225, Len(blob) + 8, sExif \o blob)
                  \o jpegSeg(192, 8, sof(8, 100, 100, 3)) \o <<255, 217>> :
              lead \in {<<>>, jpegSeg(225, 34, sExif \o tinyTIFF)} } :
            blob \in EXIFBlobs }

EXIFInputs == EXIFFiles

\* ---- sources decoded twice ----
TwiceFiles ==
    { bmpFile(bmpInfo(40, 100, -100, 24, 0)), bmpFile(bmpCore(100, 100, 8)),
      bmpFile(bmpInfo(39, 100, 100, 24, 0)) }
    \cup { gifScreen(v, 100, 100, k) \o gifColorTable(k) \o b \o <<59>> :
           v \in { <<56, 57, 97>>, <<56, 56, 97>> }, k \in {0, 128}, b \in GIFBlockLib }
    \cup { pngSig \o pngChunkBytes(sIHDR, ihdr(100, 100, 8, 2)) \o c \o pngChunkBytes(sIEND, <<>>) :
           c \in PNGChunkLib }
    \cup { <<255, 216>> \o s \o jpegSeg(192, 8, sof(8, 100, 100, 3)) \o <<255, 217>> :
           s \in JPEGSegLib }
    \cup { f \in WebPFiles : Len(f) <= 30 }

TwiceInputs == UNION { Prefixes(f) : f \in TwiceFiles }

-----------------------------------------------------------------------------
(* Specifications                                                          *)

InitOn(sources) ==
    /\ data \in sources
    /\ pos = 0
    /\ pc = "idle"
    /\ via = ""
    /\ format = ""
    /\ res = Nil
    /\ err = "nil"
    /\ md = Nil
    /\ loc = LocInit
    /\ magic = <<>>
    /\ first = NoOutcome

Init ==
    InitOn(DetectInputs \cup BMPInputs \cup WebPInputs \cup PNGInputs \cup GIFInputs
           \cup JPEGInputs \cup TIFFInputs \cup EXIFInputs)

Next ==
    \/ metadataFromSeeker
    \/ metadataFromSeekerShort
    \/ \E f \in Formats : Extract(f)
    \/ \E f \in Formats : ExtractMetadata(f)
    \/ CallExtractBMP
    \/ CallExtractWebP
    \/ ExtractPNGHeader
    \/ ExtractPNGChunk
    \/ ExtractPNGReturn
    \/ ExtractGIFHeader
    \/ ExtractGIFBlock
    \/ ExtractGIFReturn
    \/ ExtractJPEGHeader
    \/ ExtractJPEGSegment
    \/ ExtractJPEGReturn
    \/ CallParseTIFF
    \/ metadataFromSeekerReturn
    \/ Rewind
    \/ PoolReuse

Spec == Init /\ [][Next]_vars

\* metadataFromSeeker on the signature family
InitDetect == InitOn(DetectInputs)

NextDetect ==
    \/ metadataFromSeeker
    \/ CallExtractBMP
    \/ CallExtractWebP
    \/ ExtractPNGHeader
    \/ ExtractPNGChunk
    \/ ExtractPNGReturn
    \/ ExtractGIFHeader
    \/ ExtractGIFBlock
    \/ ExtractGIFReturn
    \/ ExtractJPEGHeader
    \/ ExtractJPEGSegment
    \/ ExtractJPEGReturn
    \/ metadataFromSeekerReturn

SpecDetect == InitDetect /\ [][NextDetect]_vars

\* the three entry points on the BMP family
InitBMP == InitOn(BMPInputs)

NextBMP ==
    \/ metadataFromSeeker
    \/ Extract("BMP")
    \/ ExtractMetadata("BMP")
    \/ CallExtractBMP
    \/ metadataFromSeekerReturn

SpecBMP == InitBMP /\ [][NextBMP]_vars

\* the three entry points on the WebP family
InitWebP == InitOn(WebPInputs)

NextWebP ==
    \/ metadataFromSeeker
    \/ Extract("WebP")
    \/ ExtractMetadata("WebP")
    \/ CallExtractWebP
    \/ metadataFromSeekerReturn

SpecWebP == InitWebP /\ [][NextWebP]_vars

\* the three entry points on the PNG family
InitPNG == InitOn(PNGInputs)

NextPNG ==
    \/ metadataFromSeeker
    \/ Extract("PNG")
    \/ ExtractMetadata("PNG")
    \/ ExtractPNGHeader
    \/ ExtractPNGChunk
    \/ ExtractPNGReturn
    \/ metadataFromSeekerReturn

SpecPNG == InitPNG /\ [][NextPNG]_vars

\* the three entry points on the GIF family
InitGIF == InitOn(GIFInputs)

NextGIF ==
    \/ metadataFromSeeker
    \/ Extract("GIF")
    \/ ExtractMetadata("GIF")
    \/ ExtractGIFHeader
    \/ ExtractGIFBlock
    \/ ExtractGIFReturn
    \/ metadataFromSeekerReturn

SpecGIF == InitGIF /\ [][NextGIF]_vars

\* the three entry points on the JPEG family
InitJPEG == InitOn(JPEGInputs)

NextJPEG ==
    \/ metadataFromSeeker
    \/ Extract("JPEG")
    \/ ExtractMetadata("JPEG")
    \/ ExtractJPEGHeader
    \/ ExtractJPEGSegment
    \/ ExtractJPEGReturn
    \/ metadataFromSeekerReturn

SpecJPEG == InitJPEG /\ [][NextJPEG]_vars

\* parseTIFF on the TIFF family
InitTIFF == InitOn(TIFFInputs)

NextTIFF == CallParseTIFF

SpecTIFF == InitTIFF /\ [][NextTIFF]_vars

-----------------------------------------------------------------------------
\* the three entry points on PNG and JPEG files that carry TIFF blobs
InitEXIF == InitOn(EXIFInputs)

NextEXIF ==
    \/ metadataFromSeeker
    \/ \E f \in {"PNG", "JPEG"} : Extract(f)
    \/ \E f \in {"PNG", "JPEG"} : ExtractMetadata(f)
    \/ ExtractPNGHeader
    \/ ExtractPNGChunk
    \/ ExtractPNGReturn
    \/ ExtractJPEGHeader
    \/ ExtractJPEGSegment
    \/ ExtractJPEGReturn
    \/ metadataFromSeekerReturn
    \/ PoolReuse

SpecEXIF == InitEXIF /\ [][NextEXIF]_vars

\* package imx's PNG and JPEG decoders on the PNG and JPEG families
InitPool == InitOn(PNGInputs \cup JPEGInputs)

NextPool ==
    \/ \E f \in {"PNG", "JPEG"} : ExtractMetadata(f)
    \/ ExtractPNGHeader
    \/ ExtractPNGChunk
    \/ ExtractPNGReturn
    \/ ExtractJPEGHeader
    \/ ExtractJPEGSegment
    \/ ExtractJPEGReturn

SpecPool == InitPool /\ [][NextPool]_vars

\* every entry point on the five file families
InitHalts == InitOn(BMPInputs \cup WebPInputs \cup PNGInputs \cup GIFInputs \cup JPEGInputs)

NextHalts ==
    \/ metadataFromSeeker
    \/ \E f \in Formats : Extract(f)
    \/ \E f \in Formats : ExtractMetadata(f)
    \/ CallExtractBMP
    \/ CallExtractWebP
    \/ ExtractPNGHeader
    \/ ExtractPNGChunk
    \/ ExtractPNGReturn
    \/ ExtractGIFHeader
    \/ ExtractGIFBlock
    \/ ExtractGIFReturn
    \/ ExtractJPEGHeader
    \/ ExtractJPEGSegment
    \/ ExtractJPEGReturn
    \/ metadataFromSeekerReturn

SpecHalts == InitHalts /\ [][NextHalts]_vars

\* metadataFromSeeker on sources that may split their reads, over the signature
\* family and the whole files of the five formats
InitShort == InitOn(DetectInputs \cup BMPFiles \cup WebPFiles \cup PNGFiles \cup GIFFiles \cup JPEGFiles)

NextShort ==
    \/ metadataFromSeekerShort
    \/ CallExtractBMP
    \/ CallExtractWebP
    \/ ExtractPNGHeader
    \/ ExtractPNGChunk
    \/ ExtractPNGReturn
    \/ ExtractGIFHeader
    \/ ExtractGIFBlock
    \/ ExtractGIFReturn
    \/ ExtractJPEGHeader
    \/ ExtractJPEGSegment
    \/ ExtractJPEGReturn
    \/ metadataFromSeekerReturn

SpecShort == InitShort /\ [][NextShort]_vars

\* a call, a rewind of the source, and the same call again
InitTwice == InitOn(TwiceInputs)

NextTwice ==
    \/ metadataFromSeeker
    \/ \E f \in Formats : Extract(f)
    \/ CallExtractBMP
    \/ CallExtractWebP
    \/ ExtractPNGHeader
    \/ ExtractPNGChunk
    \/ ExtractPNGReturn
    \/ ExtractGIFHeader
    \/ ExtractGIFBlock
    \/ ExtractGIFReturn
    \/ ExtractJPEGHeader
    \/ ExtractJPEGSegment
    \/ ExtractJPEGReturn
    \/ metadataFromSeekerReturn
    \/ Rewind

SpecTwice == InitTwice /\ [][NextTwice]_vars

(* Properties                                                              *)

\* a call has come back to its caller without a fault
Finished == pc \in {"returned", "done"}
Succeeded == Finished /\ err = "nil" /\ res # Nil

\* the five signature rules, as the specification words them
StartsWith(m, sig) == Len(m) >= Len(sig) /\ SubSeq(m, 1, Len(sig)) = sig
IsJPEG(m) == StartsWith(m, <<255, 216, 255>>)
IsPNG(m)  == StartsWith(m, <<137, 80, 78, 71, 13, 10, 26, 10>>)
IsGIF(m)  == StartsWith(m, <<71, 73, 70, 56, 55, 97>>) \/ StartsWith(m, <<71, 73, 70, 56, 57, 97>>)
IsWebP(m) == Len(m) >= 12 /\ SubSeq(m, 1, 4) = <<82, 73, 70, 70>>
                /\ SubSeq(m, 9, 12) = <<87, 69, 66, 80>>
IsBMP(m)  == StartsWith(m, <<66, 77>>) /\ ~IsJPEG(m) /\ ~IsPNG(m) /\ ~IsGIF(m) /\ ~IsWebP(m)
NoSignature(m) == ~IsJPEG(m) /\ ~IsPNG(m) /\ ~IsGIF(m) /\ ~IsWebP(m) /\ ~IsBMP(m)

\* metadataFromSeeker has called Detect on magic
Detected == via = "metadataFromSeeker" /\ pc # "idle" /\ err # "ErrInvalidSource"

\* C1: for every byte sequence of 2 to 16 bytes handed to Detect, the tag is
\* JPEG iff it starts FF D8 FF, PNG iff it starts with the 8-byte signature,
\* GIF iff its first six bytes are GIF87a or GIF89a, WebP iff it has 12 bytes
\* with RIFF at 0-3 and WEBP at 8-11, BMP iff it starts BM and no earlier rule
\* matched, and the empty tag for every other sequence.
C1_DetectRules ==
    (Detected /\ Len(magic) >= 2 /\ Len(magic) <= 16) =>
        /\ (format = "JPEG") <=> IsJPEG(magic)
        /\ (format = "PNG") <=> IsPNG(magic)
        /\ (format = "GIF") <=> IsGIF(magic)
        /\ (format = "WebP") <=> IsWebP(magic)
        /\ (format = "BMP") <=> IsBMP(magic)
        /\ (format = "") <=> NoSignature(magic)

\* a 12-byte RIFF....WEBP sequence was detected as WebP
C1_Witness == Detected /\ Len(magic) = 12 /\ format = "WebP"

\* C2: metadataFromSeeker returns ErrUnsupportedFormat, having invoked no
\* decoder, for every source whose leading bytes match none of the five
\* signatures, sources of 0 or 1 bytes included.
C2_UnsupportedFormat ==
    (via = "metadataFromSeeker" /\ pc = "done" /\ NoSignature(SubSeq(data, 1, Min(16, Len(data))))) =>
        /\ err = "ErrUnsupportedFormat"
        /\ res = Nil

\* the record's dimensions came from the format's dimension-bearing header:
\* "Process IHDR chunk" and the SOF case leave BitDepth / BitsPerSample behind
DimensionHeaderRead ==
    CASE format = "PNG" -> Has(res.Additional, "BitDepth")
      [] format = "JPEG" -> Has(res.Additional, "BitsPerSample")
      [] OTHER -> TRUE

\* C3: whenever a decode returns a record successfully, width and height were
\* set from the format's dimension-bearing header (PNG IHDR, JPEG SOF, ...);
\* no record is returned with the header never read.
C3_DimensionsSet == Succeeded => DimensionHeaderRead

\* C4: in every successfully returned record width >= 0 and height >= 0, for
\* all formats and header contents, in particular for both BMP DIB variants.
C4_NonNegative == Succeeded => (res.Width >= 0 /\ res.Height >= 0)

\* the DIB header size and the stored height of a BMP source
StoredDIBSize(d) == LEUint32(SubSeq(d, 15, 18))
StoredHeight(d) == LEInt32(SubSeq(d, 23, 26))

\* C5: for a BMP whose DIB header size is >= 40 and every signed 32-bit stored
\* height h, the record height equals |h| and TopDown is true exactly when
\* h < 0.
C5_AbsoluteHeight ==
    (Succeeded /\ format = "BMP" /\ Len(data) >= 54 /\ StoredDIBSize(data) >= 40) =>
        LET h == StoredHeight(data) IN
        /\ IF h >= 0 THEN res.Height = h
           ELSE res.Height > 0 /\ res.Height - 1 = -(h + 1)
        /\ res.Additional["TopDown"] = (h < 0)

\* C6: every successful GIF decode, one ending at the 0x3B trailer included,
\* returns a record whose additional attributes hold HasTransparency,
\* HasAnimation and FrameCount, FrameCount being the number of 0x2C image
\* blocks the loop consumed.
C6_FinalAttributes ==
    (Succeeded /\ format = "GIF") =>
        /\ Has(res.Additional, "HasTransparency")
        /\ Has(res.Additional, "HasAnimation")
        /\ Has(res.Additional, "FrameCount")
        /\ res.Additional["FrameCount"] = loc.frameCount

\* the number of places in d where the bytes s stand
Occurrences(d, s) == Cardinality({i \in 1..(Len(d) - Len(s) + 1) : SubSeq(d, i, i + Len(s) - 1) = s})

\* the declared length of the first chunk
FirstLength(d) == BEUint32(SubSeq(d, 9, 12))

\* d is a PNG stream: the signature, then the IHDR chunk with its whole data
\* field of at least 13 bytes; whatever follows may be cut off anywhere
CompleteIHDR(d) ==
    /\ StartsWith(d, <<137, 80, 78, 71, 13, 10, 26, 10>>)
    /\ Len(d) >= 16
    /\ SubSeq(d, 13, 16) = <<73, 72, 68, 82>>
    /\ Occurrences(d, <<73, 72, 68, 82>>) = 1
    /\ FirstLength(d) >= 13
    /\ Len(d) >= 16 + FirstLength(d)

\* the color type mapping, as the specification words it
PNGColorSpaceOf(colorType) ==
    IF colorType = 0 THEN "Grayscale"
    ELSE IF colorType = 2 THEN "RGB"
    ELSE IF colorType = 3 THEN "Indexed"
    ELSE IF colorType = 4 THEN "GrayscaleAlpha"
    ELSE IF colorType = 6 THEN "RGBA"
    ELSE "Unknown"

\* C7: for every PNG stream holding the signature and a complete IHDR data
\* field (length >= 13), cut off at any point after that data, the decode
\* succeeds with width and height equal to the big-endian 32-bit IHDR fields,
\* colorDepth equal to the raw bit depth and colorSpace mapped from the color
\* type (0/2/3/4/6 to Grayscale/RGB/Indexed/GrayscaleAlpha/RGBA, else Unknown).
C7_TruncatedAfterIHDR ==
    (Finished /\ format = "PNG" /\ CompleteIHDR(data)) =>
        /\ err = "nil"
        /\ res # Nil
        /\ res.Width = BEUint32(SubSeq(data, 17, 20))
        /\ res.Height = BEUint32(SubSeq(data, 21, 24))
        /\ res.ColorDepth = data[25]
        /\ res.ColorSpace = PNGColorSpaceOf(data[26])
        /\ (pc = "done" =>
               /\ md # Nil
               /\ md.Width = res.Width /\ md.Height = res.Height
               /\ md.ColorDepth = res.ColorDepth /\ md.ColorSpace = res.ColorSpace)

\* a stream cut right after the 13 IHDR data bytes (no CRC, no IEND) gave 100 x 100
C7_Witness ==
    /\ pc = "returned" /\ format = "PNG" /\ CompleteIHDR(data)
    /\ Len(data) = 29
    /\ res # Nil /\ res.Width = 100 /\ res.Height = 100 /\ res.ColorSpace = "RGB"

\* the segment pass just taken reached a Start-of-Frame segment holding at
\* least 6 payload bytes; package imx's decoder reads with io.ReadFull and
\* needs the min(length, 9) bytes it asks for to be there
SOFReached(l, d, direct) ==
    /\ l.tag # <<>> /\ l.tag[1] \in (192..195) \cup (197..199) \cup (201..203) \cup (205..207)
    /\ l.length >= 6
    /\ l.at + (IF direct THEN Min(l.length, 9) ELSE 6) <= Len(d)

\* the component-count mapping, as the specification words it
JPEGColorSpaceOf(numComponents) ==
    IF numComponents = 1 THEN "Grayscale"
    ELSE IF numComponents = 3 THEN "RGB"
    ELSE IF numComponents = 4 THEN "CMYK"
    ELSE "Unknown"

\* what a record keeps from the frame header
Frame(r) == <<r.Width, r.Height, r.ColorDepth, r.ColorSpace>>

\* one step of a JPEG decode, as C8 wants it
SOFStep ==
    /\ pc = "jpeg_loop" /\ pc' # "panicked" /\ res' # Nil =>
          IF SOFReached(loc', data, Imx)
          THEN /\ res'.Height = 256 * data[loc'.at + 2] + data[loc'.at + 3]
               /\ res'.Width = 256 * data[loc'.at + 4] + data[loc'.at + 5]
               /\ res'.ColorDepth = 3 * data[loc'.at + 1]
               /\ res'.ColorSpace = JPEGColorSpaceOf(data[loc'.at + 6])
          ELSE loc'.tag = <<>> \/ loc'.tag[1] \notin SOFMarkers => Frame(res') = Frame(res)
    /\ pc = "jpeg_end" =>
          /\ <<res'.Width, res'.Height, res'.ColorDepth>> = <<res.Width, res.Height, res.ColorDepth>>
          /\ res'.ColorSpace = IF res.ColorSpace = "" THEN "RGB" ELSE res.ColorSpace
          /\ ~Has(res.Additional, "Components") => res'.ColorSpace = "RGB"
    /\ pc = "returned" /\ pc' = "done" /\ err = "nil" =>
          <<md'.Width, md'.Height, md'.ColorDepth, md'.ColorSpace>> = Frame(res)

\* C8: a JPEG whose marker chain reaches a Start-of-Frame segment (C0-C3,
\* C5-C7, C9-CB, CD-CF) with at least 6 payload bytes gets height = payload
\* bytes 1-2 and width = payload bytes 3-4 (big-endian), colorDepth = 3 x the
\* precision byte and colorSpace Grayscale / RGB / CMYK for 1 / 3 / 4
\* components, Unknown otherwise; no other segment changes them, and a record
\* no SOF segment gave a color space is returned with colorSpace RGB.
C8_StartOfFrame == [][SOFStep]_vars

\* a 6-byte SOF2 payload (precision 12, 16 rows, 32 columns, 1 component) was
\* decoded and returned through metadataFromSeeker
C8_Witness ==
    /\ pc = "done" /\ format = "JPEG" /\ err = "nil"
    /\ md # Nil /\ md.Height = 16 /\ md.Width = 32 /\ md.ColorDepth = 36
    /\ md.ColorSpace = "Grayscale"

\* d is a WebP source whose chunk tag is "VP8 " and whose complete 10-byte
\* key-frame header starts with the start code 9D 01 2A
VP8KeyFrame(d) ==
    /\ Len(d) >= 26
    /\ SubSeq(d, 1, 4) = <<82, 73, 70, 70>>
    /\ SubSeq(d, 9, 12) = <<87, 69, 66, 80>>
    /\ SubSeq(d, 13, 16) = <<86, 80, 56, 32>>
    /\ SubSeq(d, 17, 19) = <<157, 1, 42>>

LoopPassSucceeds ==
    pc \in {"png_loop", "gif_loop", "jpeg_loop"} => (err' = "nil" /\ res' # Nil)

\* C10: once a decoder is inside its chunk / segment / block loop, a short
\* read or the end of the source ends decoding successfully; no pass of the
\* loop returns an error.
C10_NoErrorInLoop == [][LoopPassSucceeds]_vars

-----------------------------------------------------------------------------
(* Truncated fixed headers                                                  *)

\* the number of bytes a decoder's mandatory fixed header occupies in d: BMP
\* 14 + 4 and then 36 or 8 by the DIB size, GIF 6 + 7, PNG 8, JPEG 2
HeaderLength(f, d) ==
    CASE f = "BMP" ->
           IF Len(d) < 18 THEN 18
           ELSE IF StoredDIBSize(d) >= 40 THEN 54
           ELSE IF StoredDIBSize(d) = 12 THEN 26
           ELSE 18
      [] f = "GIF" -> 13
      [] f = "PNG" -> 8
      [] f = "JPEG" -> 2
      [] OTHER -> 0

\* C11: when the source ends before the decoder's mandatory fixed header is
\* complete, decode returns an error and no record.
C11_TruncatedHeader ==
    (pc = "returned" /\ Len(data) < HeaderLength(format, data)) =>
        (err # "nil" /\ res = Nil)

-----------------------------------------------------------------------------
(* Outcomes of a decode                                                     *)

\* a call that has returned hands back a record or an error, never both and
\* never neither
RecordOrError == pc = "returned" => ((res # Nil) <=> (err = "nil"))

\* C12: for every finite byte source decode ends in exactly one of two
\* outcomes, a record or an error value; no input causes a runtime fault (a
\* negative allocation size, an out-of-range slice or index), a JPEG segment
\* whose 2-byte length field is 0 or 1 included.
C12_NoRuntimeFault == pc # "panicked" /\ RecordOrError

-----------------------------------------------------------------------------
(* The TIFF decoder                                                         *)

\* a blob that passes the four header checks of parseTIFF
TIFFByteOrder(b) == IF b[1] = 73 THEN "II" ELSE "MM"
TIFFHeaderOK(b) ==
    /\ Len(b) >= 8
    /\ SubSeq(b, 1, 2) \in {<<73, 73>>, <<77, 77>>}
    /\ boUint16(TIFFByteOrder(b), SubSeq(b, 3, 4)) = 42
    /\ boUint32(TIFFByteOrder(b), SubSeq(b, 5, 8)) < Len(b)

\* the names of the curated tags among the complete entries of the first
\* directory of b
FirstIFDTags(b) ==
    LET bo  == TIFFByteOrder(b)
        off == boUint32(bo, SubSeq(b, 5, 8))
        n   == IF off + 2 <= Len(b) THEN boUint16(bo, SubSeq(b, off + 1, off + 2)) ELSE 0
    IN  { getEXIFTagName(boUint16(bo, SubSeq(b, off + 2 + 12 * i + 1, off + 2 + 12 * i + 2))) :
            i \in { j \in 0..(Len(b) \div 12) : j < n /\ off + 2 + 12 * j + 12 <= Len(b) } }
        \ {""}

\* C14: parseTIFF returns for every blob, also when an ExifIFD pointer leads
\* back to a directory already being parsed; no directory is parsed at a depth
\* above 10, and the bound does not fail the parse: a blob with a valid header
\* gets a nil error and a map holding the tags of its first directory.  (The
\* recursion is at most 11 calls deep and the entry loop of a directory makes
\* at most Len(b) \div 12 passes, which is why every call returns.)
C14_DepthBound ==
    (pc = "returned" /\ via = "parseTIFF") =>
        /\ loc.depth <= 10
        /\ TIFFHeaderOK(data) =>
              /\ err = "nil"
              /\ res # Nil
              /\ FirstIFDTags(data) \subseteq DOMAIN res.EXIF

\* a parse that ran into the depth bound and still returned its tags
C14_Witness ==
    /\ pc = "returned" /\ via = "parseTIFF"
    /\ loc.depth = 10
    /\ err = "nil"
    /\ Has(res.EXIF, "Orientation")
    /\ Has(res.EXIF, "ISO")

-----------------------------------------------------------------------------
(* EXIF inside PNG and JPEG                                                 *)

\* the last pass handled a complete eXIf chunk or a complete APP1 segment
\* that starts with "Exif\0\0"
EXIFPass(d, l) ==
    /\ l.length >= 0
    /\ l.at + l.length <= Len(d)
    /\ \/ l.tag = sEXIF
       \/ l.tag = <<225>> /\ l.length >= 6 /\ SubSeq(d, l.at + 1, l.at + 6) = sExif

\* the TIFF blob that pass handed to parseTIFF
EXIFBlob(d, l) ==
    IF l.tag = sEXIF THEN SubSeq(d, l.at + 1, l.at + l.length)
    ELSE SubSeq(d, l.at + 7, l.at + l.length)

\* a pass of the chunk / segment loop whose blob the TIFF decoder rejects
EXIFFailureStep ==
    (/\ pc \in {"png_loop", "jpeg_loop"}
     /\ loc'.at # loc.at
     /\ EXIFPass(data, loc')
     /\ ~TIFFHeaderOK(EXIFBlob(data, loc')))
        => /\ pc' = pc
           /\ err' = "nil"
           /\ res' = res

\* C13: a failure of the TIFF decoder (blob shorter than 8 bytes, byte order
\* not II/MM, magic not 42, first-directory offset at or beyond the blob
\* length) inside a JPEG APP1 segment or a PNG eXIf chunk does not make the
\* enclosing decoder fail and leaves the exif map and every other field of the
\* record as they were before the call.
C13_EXIFFailureIgnored == [][EXIFFailureStep]_vars

\* a rejected blob has been passed over and the tags of an earlier one are kept
C13_Witness ==
    /\ pc \in {"png_loop", "jpeg_loop"}
    /\ EXIFPass(data, loc)
    /\ ~TIFFHeaderOK(EXIFBlob(data, loc))
    /\ err = "nil"
    /\ res # Nil
    /\ Has(res.EXIF, "Orientation")

\* C15: every key present in the exif map of a returned record carries a
\* decoded, non-null value; a curated tag whose value cannot be decoded is
\* left out of the map.
C15_NoNullValues ==
    (pc = "returned" /\ err = "nil" /\ res # Nil) =>
        \A k \in DOMAIN res.EXIF : res.EXIF[k] # NilValue

\* the blobs holding one (signed) rational of count 1 with denominator 0
ZeroDenominator(b) ==
    \E bo \in ByteOrders, t \in {exifTypeRational, exifTypeSRational},
       n \in RationalNums \cup RationalTopNums : b = tiffRational(bo, t, n, 0)

\* C18: a rational or signed-rational value with element count 1 whose
\* denominator is 0 decodes to the value 0 and raises no fault, for either
\* byte order and any numerator.
C18_ZeroDenominator ==
    (pc = "returned" /\ via = "parseTIFF" /\ ZeroDenominator(data)) =>
        /\ err = "nil"
        /\ res # Nil
        /\ Has(res.EXIF, "XResolution")
        /\ res.EXIF["XResolution"] = Val("float64", [num |-> 0, den |-> 1])

\* a signed rational -1 / 0 in big-endian order has been decoded
C18_Witness ==
    /\ pc = "returned" /\ via = "parseTIFF"
    /\ data = tiffRational("MM", exifTypeSRational, -1, 0)
    /\ res # Nil
    /\ res.EXIF["XResolution"] = Val("float64", [num |-> 0, den |-> 1])

-----------------------------------------------------------------------------
(* The GIF signature                                                        *)

\* "87a" and "89a"
GIFVersions == { <<56, 55, 97>>, <<56, 57, 97>> }

\* C20: the GIF decoder, called directly with any byte source, fails unless the
\* first six bytes are exactly GIF87a or GIF89a; on every successful decode the
\* recorded Version attribute is "87a" or "89a".
C20_SignatureExact ==
    (Succeeded /\ format = "GIF" /\ via \in {"formats.Extract", "imx"}) =>
        /\ Len(data) >= 6
        /\ SubSeq(data, 1, 3) = sGIF
        /\ SubSeq(data, 4, 6) \in GIFVersions
        /\ res.Additional["Version"] \in GIFVersions

-----------------------------------------------------------------------------
(* Fill bytes in front of a JPEG marker                                     *)

\* the segment loop run to its end: [res, err, pos]
RECURSIVE jpegLoop(_, _, _, _, _)
jpegLoop(imx, d, p, result, l) ==
    LET x == jpegSegment(imx, d, p, result, l) IN
    IF x.next = "loop" THEN jpegLoop(imx, d, x.pos, x.res, x.loc)
    ELSE IF x.next = "break" THEN Ret(jpegFinish(x.res, x.loc), "nil", x.pos)
    ELSE Ret(x.res, x.err, x.pos)

\* ExtractJPEG (imx = FALSE) / ExtractJPEGMetadata (imx = TRUE) as a whole
ExtractJPEG(imx, d) ==
    LET h == jpegHeader(imx, d) IN
    IF h.err # "nil" THEN h ELSE jpegLoop(imx, d, h.pos, h.res, LocInit)

\* d without the extra 0xFF bytes in front of the type byte of its first marker
RECURSIVE Unfilled(_)
Unfilled(d) ==
    IF Len(d) >= 5 /\ d[3] = 255 /\ d[4] = 255
    THEN Unfilled(SubSeq(d, 1, 3) \o SubSeq(d, 5, Len(d)))
    ELSE d

\* d is a JPEG stream, complete up to its EOI marker, whose first marker type
\* byte has fill bytes in front
Filled(d) ==
    /\ Len(d) >= 7
    /\ SubSeq(d, 1, 4) = <<255, 216, 255, 255>>
    /\ Unfilled(d)[4] # 255
    /\ SubSeq(d, Len(d) - 1, Len(d)) = <<255, 217>>

\* C19: a run of one or more 0xFF fill bytes in front of a marker's type byte
\* is skipped up to the first non-0xFF byte, which is taken as the marker type:
\* the stream with the fill bytes decodes to the same outcome as the stream
\* without them.
C19_FillBytesSkipped ==
    (pc = "returned" /\ format = "JPEG" /\ Filled(data)) =>
        LET plain == ExtractJPEG(Imx, Unfilled(data)) IN
        res = plain.res /\ err = plain.err

-----------------------------------------------------------------------------
(* Decoding twice                                                           *)

\* the call made after the rewind has come back to its caller
SecondOutcome ==
    /\ first # NoOutcome
    /\ pc = "done" \/ (pc = "returned" /\ via = "formats.Extract")

-----------------------------------------------------------------------------
(* Records and the buffer pool                                              *)

\* a record package imx has returned is not changed by any later step
RecordKept == (pc = "returned" /\ via = "imx" /\ res # Nil) => res' = res

\* C17: in the implementation that takes PNG chunk and JPEG APP1 / APP2
\* payload buffers from the shared pool, a record that has been returned is
\* never changed by a later or concurrent decode: no value of its exif map
\* refers to bytes of a buffer that has been released to the pool.
C17_ReturnedRecordStable == [][RecordKept]_vars

-----------------------------------------------------------------------------
(* WebP VP8X and VP8L dimensions                                            *)

\* d is a RIFF/WEBP source whose first chunk tag is VP8X and whose 10-byte
\* header, whole, starts with the VP8X literal the parser asks for
VP8XHeader(d) ==
    /\ Len(d) >= 26
    /\ SubSeq(d, 1, 4) = sRIFF
    /\ SubSeq(d, 9, 12) = sWEBP
    /\ SubSeq(d, 13, 16) = sVP8X
    /\ SubSeq(d, 17, 20) = sVP8X

\* C21: for a VP8X chunk the stored width is one plus the 24-bit little-endian
\* value of header bytes 6..8 and the stored height is one plus a value taken
\* from bytes of its own, so clearing the width's third byte leaves the height
\* as it was; colorDepth is 32 if flag bit 0x10 is set, else 24, and
\* hasICCProfile is true exactly when flag bit 0x20 is set.
C21_VP8XDimensions ==
    (Finished /\ format = "WebP" /\ VP8XHeader(data)) =>
        /\ err = "nil"
        /\ res # Nil
        /\ res.Width = 1 + data[23] + 256 * data[24] + 65536 * data[25]
        /\ res.Height = ExtractWebP(Imx, Mutate(data, 25, 0)).res.Height
        /\ res.ColorDepth = (IF BitAnd(data[21], 16) # 0 THEN 32 ELSE 24)
        /\ res.HasICCProfile = (BitAnd(data[21], 32) # 0)

\* d is a RIFF/WEBP source whose first chunk tag is VP8L and whose 5-byte
\* header, whole, starts with the signature byte 0x2F
VP8LHeader(d) ==
    /\ Len(d) >= 21
    /\ SubSeq(d, 1, 4) = sRIFF
    /\ SubSeq(d, 9, 12) = sWEBP
    /\ SubSeq(d, 13, 16) = sVP8L
    /\ d[17] = 47

\* C22: for a VP8L chunk with signature byte 0x2F the stored width is one plus
\* the low 14 bits of the little-endian bit stream of header bytes 1..4 and the
\* stored height is one plus the next 14 bits (the two high bits of byte 2, the
\* whole of byte 3, the low four bits of byte 4), so both lie in 1 .. 16384;
\* colorDepth is 32 and alpha is reported present.
C22_VP8LDimensions ==
    (Finished /\ format = "WebP" /\ VP8LHeader(data)) =>
        /\ err = "nil"
        /\ res # Nil
        /\ res.Width = 1 + data[18] + 256 * (data[19] % 64)
        /\ res.Height = 1 + (data[19] \div 64) + 4 * data[20] + 1024 * (data[21] % 16)
        /\ res.Width \in 1..16384
        /\ res.Height \in 1..16384
        /\ res.ColorDepth = 32
        /\ res.ColorSpace = "RGBA"
        /\ res.Additional["HasAlpha"] = TRUE

-----------------------------------------------------------------------------
(* PNG chunk CRC fields                                                     *)

\* the chunk loop run to its end: [res, err, pos]
RECURSIVE pngLoop(_, _, _, _, _)
pngLoop(imx, d, p, result, l) ==
    LET x == pngChunk(imx, d, p, result, l) IN
    IF x.next = "loop" THEN pngLoop(imx, d, x.pos, x.res, x.loc)
    ELSE IF x.next = "break" THEN Ret(pngFinish(x.res, x.loc), "nil", x.pos)
    ELSE Ret(x.res, x.err, x.pos)

\* ExtractPNG (imx = FALSE) / ExtractPNGMetadata (imx = TRUE) as a whole
ExtractPNG(imx, d) ==
    LET h == pngHeader(imx, d) IN
    IF h.err # "nil" THEN h ELSE pngLoop(imx, d, h.pos, h.res, LocInit)

\* d with every byte of the CRC field of the chunks laid out from offset p on
\* replaced by x
RECURSIVE Recrc(_, _, _)
Recrc(d, p, x) ==
    IF p + 8 > Len(d) THEN d
    ELSE
    LET c == p + 8 + BEUint32(SubSeq(d, p + 1, p + 4)) IN
    IF c >= Len(d) THEN d
    ELSE Recrc([i \in 1..Len(d) |-> IF i > c /\ i <= c + 4 THEN x ELSE d[i]], c + 4, x)

CRCBytes == {1, 255}

\* C23: the PNG decoder's outcome does not depend on the CRC field of any chunk:
\* the same stream with other CRC bytes decodes to the same record and the same
\* error, and a stream with a good signature never fails, whatever its CRC
\* fields hold.
C23_CRCIgnored ==
    (pc = "returned" /\ format = "PNG") =>
        /\ Len(data) >= 8 /\ SubSeq(data, 1, 8) = pngSig => err = "nil"
        /\ \A x \in CRCBytes :
               LET o == ExtractPNG(Imx, Recrc(data, 8, x)) IN
               o.res = res /\ o.err = err

\* an IHDR chunk was decoded to 100 x 100 from a stream that has a whole CRC
\* field, all zero, which is not that chunk's CRC
C23_Witness ==
    /\ pc = "returned" /\ format = "PNG" /\ err = "nil"
    /\ res # Nil /\ res.Width = 100 /\ res.Height = 100
    /\ Len(data) >= 33
    /\ SubSeq(Recrc(data, 8, 255), 30, 33) = <<255, 255, 255, 255>>

-----------------------------------------------------------------------------
(* GIF application extensions                                               *)

\* the sub-block chain whose first size byte follows offset p is whole in d,
\* zero-length terminator included
RECURSIVE ChainWhole(_, _)
ChainWhole(d, p) ==
    /\ p + 1 <= Len(d)
    /\ \/ d[p + 1] = 0
       \/ p + 1 + d[p + 1] <= Len(d) /\ ChainWhole(d, p + 1 + d[p + 1])

\* the offset behind the terminator of that chain
RECURSIVE ChainEnd(_, _)
ChainEnd(d, p) == IF d[p + 1] = 0 THEN p + 1 ELSE ChainEnd(d, p + 1 + d[p + 1])

\* the block at the cursor is an Application extension with a whole chain
AtApplication ==
    /\ pc = "gif_loop"
    /\ pos + 2 <= Len(data)
    /\ data[pos + 1] = 33 /\ data[pos + 2] = 255
    /\ ChainWhole(data, pos + 2)

ApplicationStep ==
    AtApplication =>
        /\ pc' = "gif_loop"
        /\ pos' = ChainEnd(data, pos + 2)
        /\ loc'.hasAnimation =
               (loc.hasAnimation \/ (/\ data[pos + 3] = 11
                                     /\ SubSeq(data, pos + 4, pos + 14) = sNETSCAPE))

\* C24: the pass of the GIF block loop that meets an Application extension
\* (0x21, label 0xFF) leaves the cursor behind the zero-length terminator of
\* its sub-block chain, whatever the size byte and the identifier bytes hold,
\* and sets HasAnimation exactly when the size byte is 11 and the 11 bytes are
\* NETSCAPE2.0.
C24_ApplicationChainConsumed == [][ApplicationStep]_vars

-----------------------------------------------------------------------------
(* Buffers borrowed from bytePool                                           *)

\* the number of buffers the step's pass has to borrow: one if it got as far as
\* the payload of a PNG chunk or of a JPEG APP1 / APP2 segment whose size is
\* positive, none otherwise
Borrows ==
    IF /\ loc'.at # loc.at
       /\ loc'.length > 0
       /\ format = "PNG" \/ loc'.tag \in { <<225>>, <<226>> }
    THEN 1 ELSE 0

PoolStep ==
    (via = "imx" /\ format \in {"PNG", "JPEG"}) =>
        /\ loc'.poolOK
        /\ loc'.released = loc'.borrowed
        /\ loc'.borrowed = loc.borrowed + Borrows

\* C25: in package imx every buffer the PNG chunk loop or a JPEG APP1 / APP2
\* handler borrows is released exactly once before the next one is borrowed and
\* before the decoder returns, on every way out of the pass (payload read
\* failure, normal processing, IEND, EOI); a pass whose size is zero or
\* negative borrows nothing and releases nothing.
C25_BuffersReleased == [][PoolStep]_vars

\* a PNG decode returned after it borrowed two buffers and failed to read the
\* payload of the second chunk
C25_Witness ==
    /\ pc = "returned" /\ via = "imx" /\ format = "PNG"
    /\ loc.borrowed = 2 /\ loc.released = 2 /\ loc.poolOK
    /\ loc.length > Len(data) - loc.at

-----------------------------------------------------------------------------
(* Termination                                                              *)

\* how far a call is from its end: the stage of the call it is in
Stage ==
    CASE pc = "idle" -> 5
      [] pc = "extract" -> 4
      [] pc \in {"png_loop", "gif_loop", "jpeg_loop"} -> 3
      [] pc \in {"png_end", "gif_end", "jpeg_end"} -> 2
      [] pc = "returned" -> 1
      [] OTHER -> 0

\* the bytes of the source in front of the cursor
Remaining == IF pos < Len(data) THEN Len(data) - pos ELSE 0

\* a natural number that bounds the steps a call can still take
Rank == Stage * (Len(data) + 1) + Remaining

RankStep == Rank' < Rank /\ Rank' >= 0

\* C26: every decoder terminates on every finite byte source: each step of a
\* call, through any entry point, lowers a natural number that starts at
\* 5 * (len + 1) + len, so a loop pass that goes round again always leaves the
\* cursor further on and in front of the end of the source; this holds for the
\* GIF passes that skip sub-block chains with their read results ignored and
\* for the JPEG passes that seek backwards after a length field below 2.
C26_Terminates == [][RankStep]_vars

\* the JPEG loop came to its end by the pass that followed a backward seek: a
\* segment with a negative payload size was skipped and the next marker read
\* started inside its length field
C26_Witness ==
    /\ pc = "jpeg_end" /\ format = "JPEG"
    /\ loc.length < 0
    /\ loc.tag \notin { <<225>>, <<226>> } \cup { <<m>> : m \in SOFMarkers }
    /\ pos \in (loc.at + loc.length + 1)..(loc.at + loc.length + 2)

-----------------------------------------------------------------------------
(* The two copies of each decoder                                           *)

\* the block loop run to its end: [res, err, pos]
RECURSIVE gifLoop(_, _, _, _, _)
gifLoop(imx, d, p, result, l) ==
    LET x == gifBlock(imx, d, p, result, l) IN
    IF x.next = "loop" THEN gifLoop(imx, d, x.pos, x.res, x.loc)
    ELSE IF x.next = "break" THEN Ret(gifFinish(x.res, x.loc), "nil", x.pos)
    ELSE Ret(x.res, x.err, x.pos)

\* ExtractGIF (imx = FALSE) / ExtractGIFMetadata (imx = TRUE) as a whole
ExtractGIF(imx, d) ==
    LET h == gifHeader(imx, d) IN
    IF h.err # "nil" THEN h ELSE gifLoop(imx, d, h.pos, h.res, LocInit)

\* the decoder for format f of package imx (imx = TRUE) or formats, on d
Decoded(imx, f, d) ==
    CASE f = "BMP" -> ExtractBMP(imx, d)
      [] f = "WebP" -> ExtractWebP(imx, d)
      [] f = "PNG" -> ExtractPNG(imx, d)
      [] f = "GIF" -> ExtractGIF(imx, d)
      [] f = "JPEG" -> ExtractJPEG(imx, d)

\* the fields of a record the two packages have in common
Common(r) ==
    <<r.Width, r.Height, r.ColorDepth, r.ColorSpace, r.HasICCProfile, r.Additional>>

\* C27: the two copies of each decoder agree on every byte source: the decoder
\* of package imx and the decoder of package formats either both fail or both
\* succeed with equal width, height, colorDepth, colorSpace, hasICCProfile and
\* additional attributes, truncated sources included.
C27_PackagesAgree ==
    (pc = "returned" /\ via \in {"formats.Extract", "imx"}) =>
        LET o == Decoded(~Imx, format, data) IN
        /\ (err = "nil") = (o.err = "nil")
        /\ err = "nil" => Common(res) = Common(o.res)

-----------------------------------------------------------------------------
(* Detection against the decoders' own signature checks                     *)

\* the size of the read a decoder makes its signature check on
SignatureLength(f) ==
    CASE f = "JPEG" -> 2
      [] f = "PNG" -> 8
      [] f = "GIF" -> 6
      [] f = "WebP" -> 12
      [] f = "BMP" -> 14

\* the decoder gave the source back at its signature check: the invalid-data
\* error with the cursor not yet past the bytes that check was made on
SignatureRejected ==
    /\ err = InvalidData(Imx)
    /\ pos <= SignatureLength(format)

\* C28: whenever Detect returns a format tag for the leading bytes of a source,
\* the decoder of that format accepts the source's signature: after a
\* successful detection the decode never fails at the decoder's own signature
\* check.
C28_DetectedSignatureAccepted ==
    (via = "metadataFromSeeker" /\ Finished /\ format \in Formats) => ~SignatureRejected

\* the two bytes BM were detected as BMP and the BMP decoder, which reads 14
\* bytes for its check, went past it and failed on the next read
C28_Witness ==
    /\ via = "metadataFromSeeker" /\ pc = "done"
    /\ data = <<66, 77>> /\ format = "BMP"
    /\ err = "io.EOF"

-----------------------------------------------------------------------------
(* Sources that split their reads                                           *)

\* the format Detect gives for d when the magic-byte read is filled
FullDetect(d) == LET m == Read(d, 0, 16) IN Detect(SubSeq(m.buf, 1, m.n))

\* C29: detection and decoding depend only on the bytes of the source, not on
\* how the source splits its reads: on a source that returns fewer bytes than
\* asked for, without an error, the detected format, the error and the record
\* are those of the source that fills every request.
C29_ReadSplitIndependent ==
    (via = "metadataFromSeeker" /\ pc = "done" /\ Len(data) > 0) =>
        /\ format = FullDetect(data)
        /\ format # "" =>
               LET o == Decoded(FALSE, format, data) IN
               /\ err = o.err
               /\ err = "nil" => Common(md) = Common(o.res)

-----------------------------------------------------------------------------
(* WebP colour depth, colour space and alpha                                *)

\* C30: every successful WebP decode, whichever of the three variants the
\* source holds, has colorDepth = 32 exactly when colorSpace = RGBA exactly when
\* the HasAlpha attribute is true, and colorDepth = 24 with colorSpace = RGB
\* otherwise; HasAnimation and HasAlpha are both among the additional
\* attributes.
C30_WebPAlphaConsistent ==
    (Succeeded /\ format = "WebP") =>
        /\ Has(res.Additional, "HasAnimation") /\ Has(res.Additional, "HasAlpha")
        /\ res.Additional["HasAlpha"] \in BOOLEAN
        /\ (res.ColorDepth = 32) = (res.ColorSpace = "RGBA")
        /\ (res.ColorSpace = "RGBA") = res.Additional["HasAlpha"]
        /\ res.ColorDepth # 32 => res.ColorDepth = 24 /\ res.ColorSpace = "RGB"
        /\ (pc = "done" =>
               /\ md.ColorDepth = res.ColorDepth /\ md.ColorSpace = res.ColorSpace
               /\ md.Additional = res.Additional)

\* a VP8X source with the alpha flag set was decoded through metadataFromSeeker
\* to depth 32, RGBA, HasAlpha true
C30_Witness ==
    /\ pc = "done" /\ format = "WebP" /\ err = "nil"
    /\ VP8XHeader(data) /\ BitAnd(data[21], 16) # 0
    /\ md.ColorDepth = 32 /\ md.ColorSpace = "RGBA"
    /\ md.Additional["HasAlpha"] = TRUE /\ md.Additional["HasAnimation"] = FALSE

====
